---- MODULE Spec2Model ----
(***************************************************************************)
(* Dispatch / matching engine of the ride-hailing platform.                *)
(*                                                                         *)
(* The relational tables ride_requests and driver_offers, the hot          *)
(* key-value entries (ride:{id}:offer, driver:{id}:meta,                   *)
(* driver:{id}:presence) and the request handlers of                       *)
(* dispatch.service.js.  Every `await` of a handler is a suspension point: *)
(* a handler is a process whose pc names the statement it runs next, and   *)
(* the statements of concurrent handlers interleave freely.                *)
(*                                                                         *)
(* Spec: the ride routes (create, driver response, timeout check, cancel). *)
(* PollSpec: rides whose drivers stay silent, with a polling timeout       *)
(* check, under fairness.  IdemSpec: POST /rides behind the idempotency    *)
(* middleware.                                                             *)
(***************************************************************************)
EXTENDS Integers, Sequences, FiniteSets, TLC

(* ---- bounds of the model ---- *)
NumDrivers == 2
MaxRides == 1
MaxInFlight == 2
MaxCalls == 4
MaxOffers == 4
NumKeys == 1

(* ---- program constants ---- *)
\* config.MAX_MATCH_ATTEMPTS is read from the environment (default 5); the
\* model runs the configuration MAX_MATCH_ATTEMPTS=2, which keeps the state
\* space of concurrent handlers within reach.
MAX_MATCH_ATTEMPTS == 2
MATCH_LIMIT == 10

\* Supply and demand counts given to the surge formula.

\* Drivers around one pickup point in the crowded case.
CrowdSize == 3

\* Largest pickup coordinates of the cell computations, in units of
\* 0.0005 degrees.
MaxCellLat == 23
MaxCellLng == 21

\* The default resolution of latLngToGeoCell.
DEFAULT_RESOLUTION == 8

MaxSupply == 10
MaxDemand == 100

Drivers == 1..NumDrivers
RideIds == 1..MaxRides
ProcIds == 1..MaxInFlight
NoOffer == 0
NoDriver == 0
NoEntry == [offerId |-> NoOffer, driverId |-> NoDriver, expired |-> FALSE]

\* Idempotency-Key header values, request bodies and what is cached per key.
IdemKeys == 1..NumKeys
NoKey == 0
Bodies == {"b1", "b2", "bad"}
NoBody == [error |-> "none", id |-> 0]
NoRecord == [statusCode |-> 0, body |-> NoBody, requestHash |-> <<>>]
NoSuccess == [request |-> "none", payload |-> NoBody]

TerminalStatuses == {"ACCEPTED", "NO_DRIVERS", "EXPIRED", "CANCELLED"}

VARIABLES
  rides,        \* ride_requests rows: id -> row ("NONE": no row yet)
  offers,       \* driver_offers rows: a sequence, the offer id is the index
  offerKey,     \* ride:{rideId}:offer entries of the key-value store
  driverMeta,   \* driver:{id}:meta status field
  presence,     \* driver:{id}:presence key exists
  procs,        \* request handlers in flight
  calls,        \* number of requests received so far
  idemCache,    \* idempotency:{key} entries of the key-value store
  demand,       \* demand:{geoCell} counter of the pickup cell
  vehicleType,  \* driver:{id}:meta vehicleType field ("NONE": not set)
  demandTTL,    \* the demand:{geoCell} key has a time to live
  surgeCache,   \* surge:{geoCell} hash of the pickup cell
  surgeCells,   \* the pickup cell is a member of surge:cells:{region}
  trips,        \* trips rows: a sequence, the trip id is the index
  \* history of the responses given, kept for the properties:
  acceptedCount, \* per ride: number of responses that returned ACCEPTED
  toldAccepted, \* offers whose driver's ACCEPT returned ACCEPTED
  timeoutActed, \* offers whose timeout created a new offer or expired the ride
  firstSuccess, \* per key: body and payload of the first 201 response
  incrCompleted, \* incrementDemand calls that returned since the key was created
  geoSet,       \* drivers:locations:{region}: per region, per driver, the member's position
  lastPos       \* driver:{id}:meta lastLat/lastLng fields

vars == <<rides, offers, offerKey, driverMeta, presence, procs, calls,
          idemCache, demand, acceptedCount, toldAccepted, timeoutActed,
          firstSuccess, vehicleType, demandTTL, surgeCache, surgeCells,
          trips, incrCompleted, geoSet, lastPos>>

\* State outside the ride routes.
locVars == <<geoSet, lastPos>>

extVars == <<vehicleType, demandTTL, surgeCache, surgeCells, trips,
             incrCompleted, locVars>>

idemVars == <<idemCache, demand, firstSuccess>>

Min(a, b) == IF a < b THEN a ELSE b

\* Regions of getRegionFromCoordinates.  Coordinates are in units of
\* 0.0005 degrees (2000 units to a degree).
Regions == {"bangalore", "mumbai", "delhi"}

\* No member in a geo set, no lastLat/lastLng in the metadata.
NoPos == [lat |-> -1, lng |-> -1]

NoGeo == [g \in Regions |-> [d \in Drivers |-> NoPos]]

NoRide == [status |-> "NONE", driver_id |-> NoDriver, match_attempts |-> 0,
           current_driver_offer_id |-> NoOffer, idempotency_key |-> NoKey,
           surge_multiplier |-> 0]

IdleProc == [pc |-> "idle", op |-> "none", ride |-> 0, driverId |-> NoDriver,
             action |-> "none", attemptsRead |-> 0, declinedDrivers |-> {},
             selectedDriver |-> NoDriver, offerId |-> NoOffer,
             result |-> "none",
             forOffer |-> NoOffer, invalidAtLoad |-> FALSE,
             keyAbsentAtArrival |-> FALSE, changed |-> FALSE,
             pendingAtRead |-> FALSE, keyExpiredAtRead |-> FALSE,
             key |-> NoKey, body |-> "none", cached |-> NoRecord,
             statusCode |-> 0, payload |-> NoBody,
             successAtArrival |-> NoSuccess,
             results |-> <<>>, idx |-> 0, drivers |-> <<>>, radiusKm |-> 0,
             tier |-> "ANY", limit |-> 0, staleAll |-> {},
             supplyCount |-> 0, demandCount |-> 0, surgeMultiplier |-> 0,
             count |-> 0, failed |-> "none", tripId |-> 0,
             point |-> NoPos, region |-> "none", geoCell |-> <<>>]

\* No surge cache entry.
NoSurge == [multiplier |-> <<>>, supply |-> <<>>, demand |-> <<>>,
            ttl |-> FALSE]

\* Nothing is cached for the pickup cell and no trip exists.
NoSurgeState ==
  /\ demandTTL = FALSE
  /\ surgeCache = NoSurge
  /\ surgeCells = FALSE
  /\ trips = <<>>
  /\ incrCompleted = 0
  /\ geoSet = NoGeo
  /\ lastPos = [d \in Drivers |-> NoPos]

Init ==
  /\ rides = [r \in RideIds |-> NoRide]
  /\ offers = <<>>
  /\ offerKey = [r \in RideIds |-> NoEntry]
  /\ driverMeta = [d \in Drivers |-> "ONLINE"]
  /\ presence = [d \in Drivers |-> TRUE]
  /\ procs = [p \in ProcIds |-> IdleProc]
  /\ calls = 0
  /\ idemCache = [k \in IdemKeys |-> NoRecord]
  /\ demand = 0
  /\ acceptedCount = [r \in RideIds |-> 0]
  /\ toldAccepted = {}
  /\ timeoutActed = {}
  /\ firstSuccess = [k \in IdemKeys |-> NoSuccess]
  /\ vehicleType = [d \in Drivers |-> "ECONOMY"]
  /\ NoSurgeState

(* ---- proximity index ---- *)

\* GEORADIUS ... ASC: the drivers of the region's geo set, nearest first.
\* Driver d lies at rank d from every pickup point of the model.
GeoRadius(count) == SubSeq([i \in 1..NumDrivers |-> i], 1, Min(count, NumDrivers))

IsEligible(d) == presence[d] /\ driverMeta[d] = "ONLINE"

FindNearbyDrivers(limit) ==
  LET results == GeoRadius(limit * 2)
      kept == SelectSeq(results, IsEligible)
  IN SubSeq(kept, 1, Min(limit, Len(kept)))

SeqToSet(s) == {s[i] : i \in 1..Len(s)}

(* ---- one step of a handler ---- *)

\* A handler step: the new stores and the handler's new record.  The record
\* notes whether the handler has changed any ride, offer, driver or
\* fast-lookup state so far.
Commit(p, nr, no, nm, nk, np) ==
  /\ rides' = nr
  /\ offers' = no
  /\ driverMeta' = nm
  /\ offerKey' = nk
  /\ procs' = [procs EXCEPT ![p] =
       [np EXCEPT !.changed = @ \/ nr # rides \/ no # offers
                                \/ nm # driverMeta \/ nk # offerKey]]
  /\ UNCHANGED <<presence, calls, idemVars, extVars>>

At(p, label) == procs[p].pc = label

\* The slot a new request takes: the lowest free one.
FreeSlot(p) ==
  /\ procs[p].pc = "idle"
  /\ \A q \in ProcIds : q < p => procs[q].pc # "idle"
  /\ calls < MaxCalls


\* The handler returns: its result waits for the controller to send it.
Return(pr, res) ==
  [pr EXCEPT !.pc = "done", !.result = res, !.declinedDrivers = {},
             !.selectedDriver = NoDriver, !.offerId = NoOffer,
             !.attemptsRead = 0]

\* What the entry point reports once matchDriver has returned.
AfterMatch(pr) ==
  IF pr.op = "create" THEN "MATCHING"
  ELSE IF pr.op = "timeout" THEN "TIMED_OUT"
  ELSE "REASSIGNED"

\* What the entry point reports when the decline path expires the ride.
AfterExpire(pr) == IF pr.op = "timeout" THEN "TIMED_OUT" ELSE "EXPIRED"

TimeoutEffect(pr) ==
  IF pr.op = "timeout" THEN timeoutActed \cup {pr.forOffer} ELSE timeoutActed

\* A request can name ride r: createRideRequest is not in the middle of
\* creating it.  The id of a ride leaves the service with the ride.matched
\* event and with the response of POST /rides; any other id names no row.
Addressable(r) ==
  \A q \in ProcIds :
    ~(procs[q].op = "create" /\ procs[q].ride = r
      /\ procs[q].pc \notin {"idle", "done"})

(* ---- createRideRequest ---- *)

\* An Idempotency-Key that no earlier request carried.
FreshKey(r) == NumKeys + r

\* The ride id is fresh (uuidv4): the lowest id without a row, and no
\* request in flight names it.
CreateRideRequest(p, r) ==
  /\ FreeSlot(p)
  /\ rides[r].status = "NONE"
  /\ \A q \in RideIds : q < r => rides[q].status # "NONE"
  /\ \A q \in ProcIds : procs[q].pc = "idle" \/ procs[q].ride # r
  /\ rides' = [rides EXCEPT ![r] = [NoRide EXCEPT !.status = "MATCHING",
                                                  !.idempotency_key = FreshKey(r)]]
  /\ procs' = [procs EXCEPT ![p] =
       [IdleProc EXCEPT !.pc = "md_find", !.op = "create", !.ride = r,
                        !.changed = TRUE]]
  /\ calls' = calls + 1
  /\ UNCHANGED <<offers, offerKey, driverMeta, presence,
                 acceptedCount, toldAccepted, timeoutActed, idemVars, extVars>>

(* ---- matchDriver ---- *)

MdFind(p) ==
  /\ At(p, "md_find")
  /\ LET drivers == FindNearbyDrivers(MATCH_LIMIT)
         pr == procs[p]
     IN Commit(p, rides, offers, driverMeta, offerKey,
          IF Len(drivers) = 0
          THEN [pr EXCEPT !.pc = "md_no_drivers"]
          ELSE [pr EXCEPT !.pc = "md_insert_offer",
                          !.selectedDriver = drivers[1]])
  /\ UNCHANGED <<acceptedCount, toldAccepted, timeoutActed>>

MdNoDrivers(p) ==
  /\ At(p, "md_no_drivers")
  /\ LET pr == procs[p]
     IN Commit(p, [rides EXCEPT ![pr.ride].status = "NO_DRIVERS"], offers,
               driverMeta, offerKey, Return(pr, AfterMatch(pr)))
  /\ UNCHANGED <<acceptedCount, toldAccepted, timeoutActed>>

MdInsertOffer(p) ==
  /\ At(p, "md_insert_offer")
  /\ Len(offers) < MaxOffers
  /\ LET pr == procs[p]
     IN /\ Commit(p, rides,
             Append(offers, [ride |-> pr.ride, driver |-> pr.selectedDriver,
                             status |-> "PENDING"]),
             driverMeta, offerKey,
             [pr EXCEPT !.pc = "md_update_ride", !.offerId = Len(offers) + 1])
        /\ timeoutActed' = TimeoutEffect(pr)
  /\ UNCHANGED <<acceptedCount, toldAccepted>>

MdUpdateRide(p) ==
  /\ At(p, "md_update_ride")
  /\ LET pr == procs[p]
     IN Commit(p,
          [rides EXCEPT ![pr.ride] =
             [@ EXCEPT !.current_driver_offer_id = pr.offerId,
                       !.driver_id = pr.selectedDriver,
                       !.match_attempts = @ + 1]],
          offers, driverMeta, offerKey, [pr EXCEPT !.pc = "md_set_key"])
  /\ UNCHANGED <<acceptedCount, toldAccepted, timeoutActed>>

MdSetKey(p) ==
  /\ At(p, "md_set_key")
  /\ LET pr == procs[p]
     IN Commit(p, rides, offers, driverMeta,
          [offerKey EXCEPT ![pr.ride] =
             [offerId |-> pr.offerId, driverId |-> pr.selectedDriver,
              expired |-> FALSE]],
          Return(pr, AfterMatch(pr)))
  /\ UNCHANGED <<acceptedCount, toldAccepted, timeoutActed>>

(* ---- handleDriverResponse ---- *)

\* The ride is live and its current offer is still PENDING.
HasOutstandingOffer(r) ==
  LET cur == rides[r].current_driver_offer_id
  IN /\ rides[r].status = "MATCHING"
     /\ cur # NoOffer
     /\ offers[cur].status = "PENDING"

\* The offer a response answers: the ride's current offer when it is a
\* PENDING offer made to the responding driver (otherwise none).
OfferAnswered(r, d) ==
  LET cur == rides[r].current_driver_offer_id
  IN IF cur # NoOffer /\ offers[cur].status = "PENDING" /\ offers[cur].driver = d
     THEN cur ELSE NoOffer

\* POST /rides/:rideId/driver-response with {driverId, action}.
DriverResponse(p, r, d, a) ==
  /\ FreeSlot(p)
  /\ Addressable(r)
  /\ procs' = [procs EXCEPT ![p] =
       [IdleProc EXCEPT !.pc = "hdr_select", !.op = "response", !.ride = r,
                        !.driverId = d, !.action = a,
                        !.keyAbsentAtArrival = (offerKey[r] = NoEntry)]]
  /\ calls' = calls + 1
  /\ UNCHANGED <<rides, offers, offerKey, driverMeta, presence,
                 acceptedCount, toldAccepted, timeoutActed, idemVars, extVars>>

\* SELECT * FROM ride_requests WHERE id = $1
HdrSelect(p) ==
  /\ At(p, "hdr_select")
  /\ LET pr == procs[p]
         row == rides[pr.ride]
     IN Commit(p, rides, offers, driverMeta, offerKey,
          IF row.status = "NONE"
          THEN Return(pr, "RIDE_NOT_FOUND")
          ELSE [pr EXCEPT
                  !.pc = IF pr.action = "ACCEPT" THEN "acc_update_ride"
                         ELSE "dec_update_offers",
                  !.attemptsRead = row.match_attempts,
                  !.invalidAtLoad = (row.status \in TerminalStatuses
                                     \/ OfferAnswered(pr.ride, pr.driverId) = NoOffer),
                  !.forOffer = IF pr.op = "timeout" THEN pr.forOffer
                               ELSE OfferAnswered(pr.ride, pr.driverId)])
  /\ UNCHANGED <<acceptedCount, toldAccepted, timeoutActed>>

\* UPDATE driver_offers SET status = s WHERE ride_request_id = r AND driver_id = d
UpdateOffersOf(r, d, s) ==
  [i \in 1..Len(offers) |->
     IF offers[i].ride = r /\ offers[i].driver = d
     THEN [offers[i] EXCEPT !.status = s] ELSE offers[i]]

AccUpdateRide(p) ==
  /\ At(p, "acc_update_ride")
  /\ LET pr == procs[p]
     IN Commit(p,
          [rides EXCEPT ![pr.ride] =
             [@ EXCEPT !.status = "ACCEPTED", !.driver_id = pr.driverId]],
          offers, driverMeta, offerKey, [pr EXCEPT !.pc = "acc_update_offers"])
  /\ UNCHANGED <<acceptedCount, toldAccepted, timeoutActed>>

AccUpdateOffers(p) ==
  /\ At(p, "acc_update_offers")
  /\ LET pr == procs[p]
     IN Commit(p, rides, UpdateOffersOf(pr.ride, pr.driverId, "ACCEPTED"),
               driverMeta, offerKey, [pr EXCEPT !.pc = "acc_driver_status"])
  /\ UNCHANGED <<acceptedCount, toldAccepted, timeoutActed>>

AccDriverStatus(p) ==
  /\ At(p, "acc_driver_status")
  /\ LET pr == procs[p]
     IN Commit(p, rides, offers, [driverMeta EXCEPT ![pr.driverId] = "ON_TRIP"],
               offerKey, [pr EXCEPT !.pc = "acc_del_key"])
  /\ UNCHANGED <<acceptedCount, toldAccepted, timeoutActed>>

\* redis.del of the fast-lookup entry.
AccDelKey(p) ==
  /\ At(p, "acc_del_key")
  /\ LET pr == procs[p]
     IN Commit(p, rides, offers, driverMeta,
               [offerKey EXCEPT ![pr.ride] = NoEntry],
               [pr EXCEPT !.pc = "acc_return"])
  /\ UNCHANGED <<acceptedCount, toldAccepted, timeoutActed>>

\* The ride.accepted event is out: return {status: 'ACCEPTED', driverId}.
AccReturn(p) ==
  /\ At(p, "acc_return")
  /\ LET pr == procs[p]
     IN /\ Commit(p, rides, offers, driverMeta, offerKey,
                  Return(pr, "ACCEPTED"))
        /\ acceptedCount' = [acceptedCount EXCEPT ![pr.ride] = @ + 1]
        /\ toldAccepted' = IF pr.forOffer # NoOffer
                           THEN toldAccepted \cup {pr.forOffer}
                           ELSE toldAccepted
  /\ UNCHANGED timeoutActed

DecUpdateOffers(p) ==
  /\ At(p, "dec_update_offers")
  /\ LET pr == procs[p]
     IN Commit(p, rides, UpdateOffersOf(pr.ride, pr.driverId, "DECLINED"),
               driverMeta, offerKey,
               [pr EXCEPT !.pc = IF pr.attemptsRead >= MAX_MATCH_ATTEMPTS
                                 THEN "dec_expire_max"
                                 ELSE "dec_select_declined"])
  /\ UNCHANGED <<acceptedCount, toldAccepted, timeoutActed>>

DecExpireMax(p) ==
  /\ At(p, "dec_expire_max")
  /\ LET pr == procs[p]
     IN /\ Commit(p, [rides EXCEPT ![pr.ride].status = "EXPIRED"], offers,
                  driverMeta, offerKey, Return(pr, AfterExpire(pr)))
        /\ timeoutActed' = TimeoutEffect(pr)
  /\ UNCHANGED <<acceptedCount, toldAccepted>>

\* SELECT driver_id FROM driver_offers WHERE ride_request_id = r AND status = 'DECLINED'
DecSelectDeclined(p) ==
  /\ At(p, "dec_select_declined")
  /\ LET pr == procs[p]
     IN Commit(p, rides, offers, driverMeta, offerKey,
          [pr EXCEPT !.pc = "dec_find_nearby",
                     !.declinedDrivers =
                        {offers[i].driver : i \in
                           {j \in 1..Len(offers) :
                              offers[j].ride = pr.ride
                              /\ offers[j].status = "DECLINED"}}])
  /\ UNCHANGED <<acceptedCount, toldAccepted, timeoutActed>>

DecFindNearby(p) ==
  /\ At(p, "dec_find_nearby")
  /\ LET pr == procs[p]
         drivers == FindNearbyDrivers(MATCH_LIMIT)
         availableDrivers == SeqToSet(drivers) \ pr.declinedDrivers
     IN Commit(p, rides, offers, driverMeta, offerKey,
          [pr EXCEPT !.pc = IF availableDrivers = {} THEN "dec_expire_none"
                            ELSE "md_find",
                     !.declinedDrivers = {}])
  /\ UNCHANGED <<acceptedCount, toldAccepted, timeoutActed>>

DecExpireNone(p) ==
  /\ At(p, "dec_expire_none")
  /\ LET pr == procs[p]
     IN /\ Commit(p, [rides EXCEPT ![pr.ride].status = "EXPIRED"], offers,
                  driverMeta, offerKey, Return(pr, AfterExpire(pr)))
        /\ timeoutActed' = TimeoutEffect(pr)
  /\ UNCHANGED <<acceptedCount, toldAccepted>>

(* ---- checkTimeout ---- *)

\* POST /rides/:rideId/check-timeout
CheckTimeout(p, r) ==
  /\ FreeSlot(p)
  /\ Addressable(r)
  /\ procs' = [procs EXCEPT ![p] =
       [IdleProc EXCEPT !.pc = "ct_get", !.op = "timeout", !.ride = r]]
  /\ calls' = calls + 1
  /\ UNCHANGED <<rides, offers, offerKey, driverMeta, presence,
                 acceptedCount, toldAccepted, timeoutActed, idemVars, extVars>>

\* redis.get of the fast-lookup entry and the comparison with expiresAt.
CtGet(p) ==
  /\ At(p, "ct_get")
  /\ LET pr == procs[p]
         offer == offerKey[pr.ride]
         seen == [pr EXCEPT !.keyAbsentAtArrival = (offer = NoEntry),
                            !.keyExpiredAtRead = offer.expired,
                            !.pendingAtRead = HasOutstandingOffer(pr.ride)]
     IN Commit(p, rides, offers, driverMeta, offerKey,
          IF offer = NoEntry \/ ~offer.expired
          THEN Return(seen, "NOT_TIMED_OUT")
          ELSE [seen EXCEPT !.pc = "hdr_select", !.driverId = offer.driverId,
                            !.action = "DECLINE", !.forOffer = offer.offerId])
  /\ UNCHANGED <<acceptedCount, toldAccepted, timeoutActed>>

(* ---- controllers ---- *)

\* res.json(result): the request is over.
Respond(p) ==
  /\ At(p, "done")
  /\ procs' = [procs EXCEPT ![p] = IdleProc]
  /\ UNCHANGED <<rides, offers, offerKey, driverMeta, presence, calls,
                 acceptedCount, toldAccepted, timeoutActed, idemVars, extVars>>

\* POST /rides/:rideId/cancel: UPDATE ride_requests SET status = 'CANCELLED'
CancelRide(r) ==
  /\ calls < MaxCalls
  /\ Addressable(r)
  /\ rides' = [rides EXCEPT ![r].status =
                 IF @ = "NONE" THEN @ ELSE "CANCELLED"]
  /\ calls' = calls + 1
  /\ UNCHANGED <<offers, offerKey, driverMeta, presence, procs,
                 acceptedCount, toldAccepted, timeoutActed, idemVars, extVars>>

(* ---- time ---- *)

\* The offer's expiresAt passes.
OfferDeadlinePasses(r) ==
  /\ offerKey[r] # NoEntry
  /\ ~offerKey[r].expired
  /\ offerKey' = [offerKey EXCEPT ![r].expired = TRUE]
  /\ UNCHANGED <<rides, offers, driverMeta, presence, procs, calls,
                 acceptedCount, toldAccepted, timeoutActed, idemVars, extVars>>

\* The entry's TTL (response timeout + 5 s) elapses: the key is gone.
OfferKeyExpires(r) ==
  /\ offerKey[r] # NoEntry
  /\ offerKey[r].expired
  /\ offerKey' = [offerKey EXCEPT ![r] = NoEntry]
  /\ UNCHANGED <<rides, offers, driverMeta, presence, procs, calls,
                 acceptedCount, toldAccepted, timeoutActed, idemVars, extVars>>

HandlerStep(p) ==
  \/ MdFind(p) \/ MdNoDrivers(p) \/ MdInsertOffer(p) \/ MdUpdateRide(p)
  \/ MdSetKey(p)
  \/ HdrSelect(p)
  \/ AccUpdateRide(p) \/ AccUpdateOffers(p) \/ AccDriverStatus(p)
  \/ AccDelKey(p) \/ AccReturn(p)
  \/ DecUpdateOffers(p) \/ DecExpireMax(p) \/ DecSelectDeclined(p)
  \/ DecFindNearby(p) \/ DecExpireNone(p)
  \/ CtGet(p)
  \/ Respond(p)

Next ==
  \/ \E p \in ProcIds, r \in RideIds : CreateRideRequest(p, r)
  \/ \E p \in ProcIds, r \in RideIds, d \in Drivers,
        a \in {"ACCEPT", "DECLINE"} : DriverResponse(p, r, d, a)
  \/ \E p \in ProcIds, r \in RideIds : CheckTimeout(p, r)
  \/ \E p \in ProcIds : HandlerStep(p)
  \/ \E r \in RideIds : CancelRide(r)
  \/ \E r \in RideIds : OfferDeadlinePasses(r)
  \/ \E r \in RideIds : OfferKeyExpires(r)

Spec == Init /\ [][Next]_vars

(* ---- one driver offered two rides ---- *)

PairRides == 1..(MaxRides + 1)

\* Two ride requests were created while driver 1 was the nearest ONLINE
\* driver: matchDriver offered each of them to driver 1, and both offers
\* are PENDING.
PairInit ==
  /\ rides = [r \in PairRides |->
               [NoRide EXCEPT !.status = "MATCHING", !.driver_id = 1,
                              !.match_attempts = 1,
                              !.current_driver_offer_id = r,
                              !.idempotency_key = FreshKey(r)]]
  /\ offers = [r \in PairRides |->
                [ride |-> r, driver |-> 1, status |-> "PENDING"]]
  /\ offerKey = [r \in PairRides |->
                  [offerId |-> r, driverId |-> 1, expired |-> FALSE]]
  /\ driverMeta = [d \in Drivers |-> "ONLINE"]
  /\ presence = [d \in Drivers |-> TRUE]
  /\ procs = [p \in ProcIds |-> IdleProc]
  /\ calls = 0
  /\ idemCache = [k \in IdemKeys |-> NoRecord]
  /\ demand = 0
  /\ acceptedCount = [r \in PairRides |-> 0]
  /\ toldAccepted = {}
  /\ timeoutActed = {}
  /\ firstSuccess = [k \in IdemKeys |-> NoSuccess]
  /\ vehicleType = [d \in Drivers |-> "ECONOMY"]
  /\ NoSurgeState

PairNext ==
  \/ \E p \in ProcIds, r \in PairRides, d \in Drivers :
        DriverResponse(p, r, d, "ACCEPT")
  \/ \E p \in ProcIds : HdrSelect(p)
  \/ \E p \in ProcIds : AccUpdateRide(p)
  \/ \E p \in ProcIds : AccUpdateOffers(p)
  \/ \E p \in ProcIds : AccDriverStatus(p)
  \/ \E p \in ProcIds : AccDelKey(p)
  \/ \E p \in ProcIds : AccReturn(p)
  \/ \E p \in ProcIds : Respond(p)

PairSpec == PairInit /\ [][PairNext]_vars

(* ---- polling clients ---- *)

\* A client that polls POST /rides/:rideId/check-timeout for as long as the
\* ride exists; its calls are not counted in `calls`.
PollTimeout(p, r) ==
  /\ procs[p].pc = "idle"
  /\ \A q \in ProcIds : q < p => procs[q].pc # "idle"
  /\ Addressable(r)
  /\ rides[r].status # "NONE"
  /\ procs' = [procs EXCEPT ![p] =
       [IdleProc EXCEPT !.pc = "ct_get", !.op = "timeout", !.ride = r]]
  /\ UNCHANGED <<rides, offers, offerKey, driverMeta, presence, calls,
                 acceptedCount, toldAccepted, timeoutActed, idemVars, extVars>>

\* The rides of this specification get no driver response and no cancel:
\* the drivers stay silent, some of them offline from the start.
PollInit ==
  /\ rides = [r \in RideIds |-> NoRide]
  /\ offers = <<>>
  /\ offerKey = [r \in RideIds |-> NoEntry]
  /\ driverMeta \in [Drivers -> {"ONLINE", "OFFLINE"}]
  /\ presence = [d \in Drivers |-> TRUE]
  /\ procs = [p \in ProcIds |-> IdleProc]
  /\ calls = 0
  /\ idemCache = [k \in IdemKeys |-> NoRecord]
  /\ demand = 0
  /\ acceptedCount = [r \in RideIds |-> 0]
  /\ toldAccepted = {}
  /\ timeoutActed = {}
  /\ firstSuccess = [k \in IdemKeys |-> NoSuccess]
  /\ vehicleType = [d \in Drivers |-> "ECONOMY"]
  /\ NoSurgeState

\* The statements a ride creation or a timeout check can reach.
PollHandlerStep(p) ==
  \/ MdFind(p) \/ MdNoDrivers(p) \/ MdInsertOffer(p) \/ MdUpdateRide(p)
  \/ MdSetKey(p)
  \/ HdrSelect(p)
  \/ DecUpdateOffers(p) \/ DecExpireMax(p) \/ DecSelectDeclined(p)
  \/ DecFindNearby(p) \/ DecExpireNone(p)
  \/ CtGet(p)
  \/ Respond(p)

PollNext ==
  \/ \E p \in ProcIds, r \in RideIds : CreateRideRequest(p, r)
  \/ \E p \in ProcIds, r \in RideIds : PollTimeout(p, r)
  \/ \E p \in ProcIds : PollHandlerStep(p)
  \/ \E r \in RideIds : OfferDeadlinePasses(r)
  \/ \E r \in RideIds : OfferKeyExpires(r)

\* The event loop runs every handler to its end, the poller keeps polling,
\* and time passes.
PollFairness ==
  /\ \A p \in ProcIds : WF_vars(PollHandlerStep(p))
  /\ \A r \in RideIds : WF_vars(\E p \in ProcIds : PollTimeout(p, r))
  /\ \A r \in RideIds : WF_vars(OfferDeadlinePasses(r))
  /\ \A r \in RideIds : WF_vars(OfferKeyExpires(r))

PollSpec == PollInit /\ [][PollNext]_vars /\ PollFairness

(* ---- POST /rides behind the idempotency middleware ---- *)

\* hashRequest: the digest of method, path and body (its first 16 hex
\* digits; the bodies of the model have pairwise different digests).
hashRequest(b) == <<"POST", "/", b>>

\* rideRequestSchema.parse accepts the body.
IsValidBody(b) == b # "bad"

ErrorBody(e) == [error |-> e, id |-> 0]

\* The record res.json stores under idempotency:{key}.
CacheData(code, b, pr) ==
  [statusCode |-> code, body |-> b, requestHash |-> hashRequest(pr.body)]

\* The response leaves: status code and body are what the client receives.
Sent(pr, res, code, b) ==
  [pr EXCEPT !.pc = "sent", !.result = res, !.statusCode = code, !.payload = b]

idemFrame == <<rides, offers, offerKey, driverMeta, presence, calls,
               acceptedCount, toldAccepted, timeoutActed, extVars>>

\* A request with Idempotency-Key k and body b arrives; the middleware
\* issues redis.get(cacheKey), whose reply is the entry as of now.
IdemRequest(p, k, b) ==
  /\ FreeSlot(p)
  /\ procs' = [procs EXCEPT ![p] =
       [IdleProc EXCEPT !.pc = "idem_get", !.op = "create", !.key = k,
                        !.body = b, !.cached = idemCache[k],
                        !.successAtArrival = firstSuccess[k]]]
  /\ calls' = calls + 1
  /\ UNCHANGED <<rides, offers, offerKey, driverMeta, presence, idemVars, extVars,
                 acceptedCount, toldAccepted, timeoutActed>>

\* The get has resolved.  A hit answers from the cache (422 when the digests
\* differ, else the cached body with status 200).  A miss wraps res.json and
\* runs the controller up to its first await: the body is parsed (a ZodError
\* goes to errorHandler, whose res.json is the wrapped one) and
\* createRideRequest issues the INCR of the demand counter.
IdemResume(p) ==
  /\ At(p, "idem_get")
  /\ LET pr == procs[p]
     IN IF pr.cached # NoRecord
        THEN /\ procs' = [procs EXCEPT ![p] =
                  IF pr.cached.requestHash # hashRequest(pr.body)
                  THEN Sent(pr, "CONFLICT", 422,
                            ErrorBody("Idempotency key conflict"))
                  ELSE Sent(pr, "REPLAYED", 200, pr.cached.body)]
             /\ UNCHANGED idemVars
        ELSE IF ~IsValidBody(pr.body)
        THEN /\ procs' = [procs EXCEPT ![p] =
                  Sent(pr, "VALIDATION_ERROR", 400,
                       ErrorBody("Validation error"))]
             /\ idemCache' = [idemCache EXCEPT ![pr.key] =
                  CacheData(400, ErrorBody("Validation error"), pr)]
             /\ UNCHANGED <<demand, firstSuccess>>
        ELSE /\ procs' = [procs EXCEPT ![p] =
                  [pr EXCEPT !.pc = "cr_insert", !.changed = TRUE]]
             /\ demand' = demand + 1
             /\ UNCHANGED <<idemCache, firstSuccess>>
  /\ UNCHANGED idemFrame

\* INSERT INTO ride_requests: idempotency_key is UNIQUE.  A second row with
\* the key raises 23505, which errorHandler answers with 409.
CrInsert(p) ==
  /\ At(p, "cr_insert")
  /\ LET pr == procs[p]
         taken == \E r \in RideIds : /\ rides[r].status # "NONE"
                                     /\ rides[r].idempotency_key = pr.key
     IN IF taken
        THEN /\ procs' = [procs EXCEPT ![p] =
                  Sent(pr, "CONSTRAINT_VIOLATION", 409,
                       ErrorBody("Database constraint violation"))]
             /\ idemCache' = [idemCache EXCEPT ![pr.key] =
                  CacheData(409, ErrorBody("Database constraint violation"), pr)]
             /\ UNCHANGED rides
        ELSE /\ \E r \in RideIds :
                  /\ rides[r].status = "NONE"
                  /\ \A q \in RideIds : q < r => rides[q].status # "NONE"
                  /\ rides' = [rides EXCEPT ![r] =
                       [NoRide EXCEPT !.status = "MATCHING",
                                      !.idempotency_key = pr.key]]
                  /\ procs' = [procs EXCEPT ![p] =
                       [pr EXCEPT !.pc = "md_find", !.ride = r]]
             /\ UNCHANGED idemCache
  /\ UNCHANGED <<offers, offerKey, driverMeta, presence, calls, demand,
                 firstSuccess, acceptedCount, toldAccepted, timeoutActed,
                 extVars>>

\* res.status(201).json(result): the wrapped res.json stores the response
\* under the key and sends it.
IdemRespond(p) ==
  /\ At(p, "done")
  /\ procs[p].key # NoKey
  /\ LET pr == procs[p]
         b == [error |-> "none", id |-> pr.ride]
     IN /\ procs' = [procs EXCEPT ![p] = Sent(pr, pr.result, 201, b)]
        /\ idemCache' = [idemCache EXCEPT ![pr.key] = CacheData(201, b, pr)]
        /\ firstSuccess' = [firstSuccess EXCEPT ![pr.key] =
             IF @ = NoSuccess THEN [request |-> pr.body, payload |-> b] ELSE @]
  /\ UNCHANGED demand
  /\ UNCHANGED idemFrame

\* The request is over.
IdemClose(p) ==
  /\ At(p, "sent")
  /\ procs' = [procs EXCEPT ![p] = IdleProc]
  /\ UNCHANGED idemVars
  /\ UNCHANGED idemFrame

IdemInit ==
  /\ rides = [r \in RideIds |-> NoRide]
  /\ offers = <<>>
  /\ offerKey = [r \in RideIds |-> NoEntry]
  /\ driverMeta \in [Drivers -> {"ONLINE", "OFFLINE"}]
  /\ presence = [d \in Drivers |-> TRUE]
  /\ procs = [p \in ProcIds |-> IdleProc]
  /\ calls = 0
  /\ idemCache = [k \in IdemKeys |-> NoRecord]
  /\ demand = 0
  /\ acceptedCount = [r \in RideIds |-> 0]
  /\ toldAccepted = {}
  /\ timeoutActed = {}
  /\ firstSuccess = [k \in IdemKeys |-> NoSuccess]
  /\ vehicleType = [d \in Drivers |-> "ECONOMY"]
  /\ NoSurgeState

IdemNext ==
  \/ \E p \in ProcIds, k \in IdemKeys, b \in Bodies : IdemRequest(p, k, b)
  \/ \E p \in ProcIds : IdemResume(p)
  \/ \E p \in ProcIds : CrInsert(p)
  \/ \E p \in ProcIds : MdFind(p)
  \/ \E p \in ProcIds : MdNoDrivers(p)
  \/ \E p \in ProcIds : MdInsertOffer(p)
  \/ \E p \in ProcIds : MdUpdateRide(p)
  \/ \E p \in ProcIds : MdSetKey(p)
  \/ \E p \in ProcIds : IdemRespond(p)
  \/ \E p \in ProcIds : IdemClose(p)

IdemSpec == IdemInit /\ [][IdemNext]_vars

(* ---- driver location service: proximity queries ---- *)

\* Distance in km of driver d from the query point of the model.
Dist(d) == d

SUPPLY_RADIUS_KM == 2

VehicleTypes == {"ECONOMY", "PREMIUM"}

RECURSIVE SortAsc(_)
\* The members of S by ascending distance.
SortAsc(S) ==
  IF S = {} THEN <<>>
  ELSE LET d == CHOOSE x \in S : \A y \in S : Dist(x) <= Dist(y)
       IN <<d>> \o SortAsc(S \ {d})

\* A proximity search that returns the whole geo set, farthest first.
georadiusWholeSet(radius, count) ==
  LET asc == SortAsc(Drivers)
  IN [i \in 1..Len(asc) |-> asc[Len(asc) + 1 - i]]

\* GEORADIUS key lng lat radius km ASC [COUNT count]: every driver with
\* metadata has an entry in the region's geo set.
georadius(radius, count) ==
  LET within == SortAsc({d \in DOMAIN driverMeta : Dist(d) <= radius})
  IN SubSeq(within, 1, Min(count, Len(within)))

\* meta.vehicleType || 'ECONOMY'
driverVehicleType(d) ==
  IF vehicleType[d] = "NONE" THEN "ECONOMY" ELSE vehicleType[d]

\* The loop goes on with entry i of the GEORADIUS reply, or the method
\* returns: the reply is used up, or findNearbyDrivers has `limit` drivers.
\* In calculateSurge the scan is getSupplyCount: its count is the supply.
Advance(pr, i) ==
  IF i > Len(pr.results) \/ (pr.op = "nearby" /\ Len(pr.drivers) >= pr.limit)
  THEN IF pr.op \in {"calc", "create"}
       THEN [pr EXCEPT !.pc = "cs_demand", !.idx = 0,
                       !.supplyCount = Len(pr.drivers)]
       ELSE [pr EXCEPT !.pc = "done", !.result = "FOUND", !.idx = 0]
  ELSE [pr EXCEPT !.pc = "fn_exists", !.idx = i]

nearbyFrame == <<rides, offers, offerKey, calls, idemVars, extVars,
                 acceptedCount, toldAccepted, timeoutActed>>

\* findNearbyDrivers({radiusKm, vehicleType, limit}): GEORADIUS is issued.
FindNearbyStart(p, radius, tier, limit) ==
  /\ procs[p].pc = "idle"
  /\ \A q \in ProcIds : q < p => procs[q].pc # "idle"
  /\ procs' = [procs EXCEPT ![p] =
       Advance([IdleProc EXCEPT !.op = "nearby", !.radiusKm = radius,
                                !.tier = tier, !.limit = limit,
                                !.results = georadius(radius, limit * 2),
                                !.staleAll = {d \in DOMAIN presence : ~presence[d]}],
               1)]
  /\ UNCHANGED <<driverMeta, presence>>
  /\ UNCHANGED nearbyFrame

\* getSupplyCount: GEORADIUS with the 2 km supply radius and no COUNT.
SupplyCountStart(p) ==
  /\ procs[p].pc = "idle"
  /\ \A q \in ProcIds : q < p => procs[q].pc # "idle"
  /\ procs' = [procs EXCEPT ![p] =
       Advance([IdleProc EXCEPT !.op = "supply",
                                !.radiusKm = SUPPLY_RADIUS_KM,
                                !.results = georadius(SUPPLY_RADIUS_KM, NumDrivers),
                                !.staleAll = {d \in Drivers : ~presence[d]}],
               1)]
  /\ UNCHANGED <<driverMeta, presence>>
  /\ UNCHANGED nearbyFrame

\* A reader that does not gate on the presence marker.
FnExistsUngated(p) ==
  /\ At(p, "fn_exists")
  /\ procs' = [procs EXCEPT ![p].pc = "fn_meta"]
  /\ UNCHANGED <<driverMeta, presence>>
  /\ UNCHANGED nearbyFrame

\* redis.exists(driver:{id}:presence)
FnExists(p) ==
  /\ At(p, "fn_exists")
  /\ LET pr == procs[p]
         d == pr.results[pr.idx]
     IN procs' = [procs EXCEPT ![p] =
          IF presence[d] THEN [pr EXCEPT !.pc = "fn_meta"]
          ELSE Advance(pr, pr.idx + 1)]
  /\ UNCHANGED <<driverMeta, presence>>
  /\ UNCHANGED nearbyFrame

\* redis.hgetall(driver:{id}:meta) (hget status in getSupplyCount): the
\* status and vehicle type tests, then the driver is pushed (counted).
FnMeta(p) ==
  /\ At(p, "fn_meta")
  /\ LET pr == procs[p]
         d == pr.results[pr.idx]
         keep == /\ driverMeta[d] = "ONLINE"
                 /\ (pr.op = "supply" \/ pr.tier = "ANY"
                       \/ driverVehicleType(d) = pr.tier)
     IN procs' = [procs EXCEPT ![p] =
          IF keep
          THEN Advance([pr EXCEPT !.drivers = Append(@, d)], pr.idx + 1)
          ELSE Advance(pr, pr.idx + 1)]
  /\ UNCHANGED <<driverMeta, presence>>
  /\ UNCHANGED nearbyFrame

\* updateDriverStatus(driverId, status): HSET meta status.
UpdateDriverStatus(d, st) ==
  /\ driverMeta[d] # st
  /\ driverMeta' = [driverMeta EXCEPT ![d] = st]
  /\ UNCHANGED <<presence, procs>>
  /\ UNCHANGED nearbyFrame

\* The presence key of d reaches its TTL (DRIVER_PRESENCE_TTL).
PresenceExpires(d) ==
  /\ presence[d]
  /\ presence' = [presence EXCEPT ![d] = FALSE]
  /\ UNCHANGED <<driverMeta, procs>>
  /\ UNCHANGED nearbyFrame

\* updateLocation(driverId, ...): GEOADD, SET presence EX ttl, HSET meta.
\* Queries in flight note that d has sent a heartbeat since they started.
UpdateLocation(d) ==
  /\ presence' = [presence EXCEPT ![d] = TRUE]
  /\ procs' = [q \in ProcIds |-> [procs[q] EXCEPT !.staleAll = @ \ {d}]]
  /\ UNCHANGED driverMeta
  /\ UNCHANGED nearbyFrame

NearbyInit ==
  /\ rides = [r \in RideIds |-> NoRide]
  /\ offers = <<>>
  /\ offerKey = [r \in RideIds |-> NoEntry]
  /\ driverMeta = [d \in Drivers |-> "ONLINE"]
  /\ presence = [d \in Drivers |-> TRUE]
  /\ procs = [p \in ProcIds |-> IdleProc]
  /\ calls = 0
  /\ idemCache = [k \in IdemKeys |-> NoRecord]
  /\ demand = 0
  /\ acceptedCount = [r \in RideIds |-> 0]
  /\ toldAccepted = {}
  /\ timeoutActed = {}
  /\ firstSuccess = [k \in IdemKeys |-> NoSuccess]
  /\ vehicleType \in [Drivers -> VehicleTypes \cup {"NONE"}]
  /\ NoSurgeState

\* One proximity query is in flight at a time: queries only read, so they
\* interact with the rest of the system and not with each other.
NearbyProcs == {1}

NearbyNext ==
  \/ \E p \in NearbyProcs, radius \in 1..NumDrivers,
        tier \in VehicleTypes \cup {"ANY"}, limit \in 1..NumDrivers :
        FindNearbyStart(p, radius, tier, limit)
  \/ \E p \in NearbyProcs : SupplyCountStart(p)
  \/ \E p \in NearbyProcs : FnExists(p)
  \/ \E p \in NearbyProcs : FnMeta(p)
  \/ \E p \in NearbyProcs : Respond(p)
  \/ \E d \in Drivers, st \in {"ONLINE", "OFFLINE", "ON_TRIP"} :
        UpdateDriverStatus(d, st)
  \/ \E d \in Drivers : PresenceExpires(d)
  \/ \E d \in Drivers : UpdateLocation(d)

NearbySpec == NearbyInit /\ [][NearbyNext]_vars

\* getRegionFromCoordinates(lat, lng): 12.7 degrees are 25400 units.
getRegionFromCoordinates(lat, lng) ==
  IF lat >= 25400 /\ lat <= 26400 /\ lng >= 154800 /\ lng <= 155600
  THEN "bangalore"
  ELSE IF lat >= 37600 /\ lat <= 38600 /\ lng >= 145400 /\ lng <= 146000
  THEN "mumbai"
  ELSE IF lat >= 56800 /\ lat <= 57800 /\ lng >= 153600 /\ lng <= 154800
  THEN "delhi"
  ELSE "bangalore"

\* Heartbeat positions: (12.9, 77.5) and (13.0, 77.6) in Bangalore,
\* (19.0, 72.8) in Mumbai, (28.6, 77.0) in Delhi.
LocPoints == {[lat |-> 25800, lng |-> 155000], [lat |-> 26000, lng |-> 155200],
              [lat |-> 38000, lng |-> 145600], [lat |-> 57200, lng |-> 154000]}

locFrame == <<rides, offers, offerKey, driverMeta, idemVars, acceptedCount,
              toldAccepted, timeoutActed, vehicleType, demandTTL, surgeCache,
              surgeCells, trips, incrCompleted>>

\* POST /drivers/:id/location: updateLocation computes the region and
\* issues GEOADD.
UlStart(p, d, pt) ==
  /\ FreeSlot(p)
  /\ calls' = calls + 1
  /\ procs' = [procs EXCEPT ![p] =
                 [IdleProc EXCEPT !.pc = "ul_geoadd", !.op = "location",
                                  !.driverId = d, !.point = pt,
                                  !.region =
                                    getRegionFromCoordinates(pt.lat, pt.lng)]]
  /\ UNCHANGED <<presence, geoSet, lastPos>>
  /\ UNCHANGED locFrame

\* GEOADD drivers:locations:{region} lng lat driverId
UlGeoadd(p) ==
  /\ At(p, "ul_geoadd")
  /\ LET pr == procs[p]
     IN geoSet' = [geoSet EXCEPT ![pr.region][pr.driverId] = pr.point]
  /\ procs' = [procs EXCEPT ![p].pc = "ul_presence"]
  /\ UNCHANGED <<presence, lastPos, calls>>
  /\ UNCHANGED locFrame

\* SET driver:{id}:presence 1 EX ttl
UlPresence(p) ==
  /\ At(p, "ul_presence")
  /\ presence' = [presence EXCEPT ![procs[p].driverId] = TRUE]
  /\ procs' = [procs EXCEPT ![p].pc = "ul_hset"]
  /\ UNCHANGED <<geoSet, lastPos, calls>>
  /\ UNCHANGED locFrame

\* HSET driver:{id}:meta lastLat lastLng ...; the event is published and
\* the method returns.
UlHset(p) ==
  /\ At(p, "ul_hset")
  /\ lastPos' = [lastPos EXCEPT ![procs[p].driverId] = procs[p].point]
  /\ procs' = [procs EXCEPT ![p] = [@ EXCEPT !.pc = "done",
                                              !.result = "UPDATED",
                                              !.statusCode = 200]]
  /\ UNCHANGED <<presence, geoSet, calls>>
  /\ UNCHANGED locFrame

LocInit ==
  /\ rides = [r \in RideIds |-> NoRide]
  /\ offers = <<>>
  /\ offerKey = [r \in RideIds |-> NoEntry]
  /\ driverMeta = [d \in Drivers |-> "ONLINE"]
  /\ presence = [d \in Drivers |-> FALSE]
  /\ procs = [p \in ProcIds |-> IdleProc]
  /\ calls = 0
  /\ idemCache = [k \in IdemKeys |-> NoRecord]
  /\ demand = 0
  /\ acceptedCount = [r \in RideIds |-> 0]
  /\ toldAccepted = {}
  /\ timeoutActed = {}
  /\ firstSuccess = [k \in IdemKeys |-> NoSuccess]
  /\ vehicleType = [d \in Drivers |-> "ECONOMY"]
  /\ NoSurgeState

LocNext ==
  \/ \E p \in ProcIds, d \in Drivers, pt \in LocPoints : UlStart(p, d, pt)
  \/ \E p \in ProcIds : UlGeoadd(p)
  \/ \E p \in ProcIds : UlPresence(p)
  \/ \E p \in ProcIds : UlHset(p)
  \/ \E p \in ProcIds : Respond(p)

LocSpec == LocInit /\ [][LocNext]_vars

(* ---- geo cells ---- *)

DigitChars == <<"0", "1", "2", "3", "4", "5", "6", "7", "8", "9">>

\* The decimal digits of a natural number, as characters.
RECURSIVE digitsOf(_)
digitsOf(n) ==
  IF n < 10 THEN <<DigitChars[n + 1]>>
  ELSE digitsOf(n \div 10) \o <<DigitChars[(n % 10) + 1]>>

\* `${n}` of an integer inside a template literal.
interpolate(n) == IF n < 0 THEN <<"-">> \o digitsOf(-n) ELSE digitsOf(n)

\* Math.floor(x * 1000) of a coordinate given in units of 0.0005 degrees.
grid(x) == x \div 2

\* latLngToGeoCell(lat, lng, resolution = 8):
\* `h3_${resolution}${latGrid}${lngGrid}ffffff`
latLngToGeoCell(lat, lng) ==
  <<"h", "3", "_">> \o interpolate(DEFAULT_RESOLUTION)
    \o interpolate(grid(lat)) \o interpolate(grid(lng))
    \o <<"f", "f", "f", "f", "f", "f">>

\* Pickup coordinates near the origin.
CellPoints == [lat : (-1)..MaxCellLat, lng : 0..MaxCellLng]

\* getSurgeForLocation(latitude, longitude) computes the cell of the point;
\* the cell names the keys demand:{geoCell} and surge:{geoCell}.
ComputeCell(p, pt) ==
  /\ procs[p].pc = "idle"
  /\ \A q \in ProcIds : q < p => procs[q].pc # "idle"
  /\ procs' = [procs EXCEPT ![p] =
                 [IdleProc EXCEPT !.pc = "done", !.op = "cell", !.point = pt,
                                  !.geoCell = latLngToGeoCell(pt.lat, pt.lng)]]
  /\ UNCHANGED <<presence, geoSet, lastPos, calls>>
  /\ UNCHANGED locFrame

CellNext ==
  \E p \in {q \in ProcIds : procs[q].pc = "idle"}, pt \in CellPoints :
    ComputeCell(p, pt)

CellSpec == LocInit /\ [][CellNext]_vars

\* A crowded pickup point: more drivers than GEORADIUS is asked for, any
\* of them OFFLINE or without presence; nothing changes during a query.
CrowdInit ==
  /\ rides = [r \in RideIds |-> NoRide]
  /\ offers = <<>>
  /\ offerKey = [r \in RideIds |-> NoEntry]
  /\ driverMeta \in [1..CrowdSize -> {"ONLINE", "OFFLINE"}]
  /\ presence \in [1..CrowdSize -> BOOLEAN]
  /\ procs = [p \in ProcIds |-> IdleProc]
  /\ calls = 0
  /\ idemCache = [k \in IdemKeys |-> NoRecord]
  /\ demand = 0
  /\ acceptedCount = [r \in RideIds |-> 0]
  /\ toldAccepted = {}
  /\ timeoutActed = {}
  /\ firstSuccess = [k \in IdemKeys |-> NoSuccess]
  /\ vehicleType = [d \in 1..CrowdSize |-> "ECONOMY"]
  /\ NoSurgeState

CrowdNext ==
  \/ \E p \in NearbyProcs, limit \in 1..2 :
        FindNearbyStart(p, CrowdSize, "ECONOMY", limit)
  \/ \E p \in NearbyProcs : FnExists(p)
  \/ \E p \in NearbyProcs : FnMeta(p)
  \/ \E p \in NearbyProcs : Respond(p)

CrowdSpec == CrowdInit /\ [][CrowdNext]_vars

(* ---- surge pricing ---- *)

\* Multipliers are counted in hundredths: 1.0 is 100, 3.0 is 300.
SURGE_MIN == 100
SURGE_MAX == 300

\* smoothingFactor = 0.5, as the fraction 1 / SMOOTHING_DIV.
SMOOTHING_DIV == 2

\* Math.round(n / d): the nearest integer, a tie goes up.
MathRound(n, d) == (2 * n + d) \div (2 * d)

\* demand / supply taken as it is for the surge, clamped and rounded.
computeUnsmoothed(sup, dem) ==
  IF sup = 0 /\ dem = 0 THEN SURGE_MIN
  ELSE IF sup = 0 THEN SURGE_MAX
  ELSE IF 100 * dem < SURGE_MIN * sup THEN SURGE_MIN
  ELSE IF 100 * dem > SURGE_MAX * sup THEN SURGE_MAX
  ELSE 10 * MathRound(10 * dem, sup)

\* The smoothed surge, clamped but not rounded to a tenth.
computeUnrounded(sup, dem) ==
  IF sup = 0 /\ dem = 0 THEN SURGE_MIN
  ELSE IF sup = 0 THEN SURGE_MAX
  ELSE LET num == (SMOOTHING_DIV - 1) * sup + dem
           den == SMOOTHING_DIV * sup
       IN IF 100 * num < SURGE_MIN * den THEN SURGE_MIN
          ELSE IF 100 * num > SURGE_MAX * den THEN SURGE_MAX
          ELSE MathRound(100 * num, den)

\* computeSurgeMultiplier(supply, demand).  With ratio = demand / supply,
\* 1.0 + (ratio - 1) * 0.5 is the fraction num / den below; Math.max and
\* Math.min clamp it, Math.round(surge * 10) / 10 rounds it to a tenth.
computeSurgeMultiplier(sup, dem) ==
  IF sup = 0 /\ dem = 0 THEN SURGE_MIN
  ELSE IF sup = 0 THEN SURGE_MAX
  ELSE LET num == (SMOOTHING_DIV - 1) * sup + dem
           den == SMOOTHING_DIV * sup
       IN IF 100 * num < SURGE_MIN * den THEN 10 * MathRound(10 * SURGE_MIN, 100)
          ELSE IF 100 * num > SURGE_MAX * den
            THEN 10 * MathRound(10 * SURGE_MAX, 100)
          ELSE 10 * MathRound(10 * num, den)

\* Number.prototype.toString of a multiplier: the digits of the shortest
\* decimal, "1" for 1.0, "1.3" for 1.3, "1.25" for 1.25.
numToString(m) ==
  LET w == m \div 100
      t == (m % 100) \div 10
      h == m % 10
  IN IF h # 0 THEN <<w, t, h>> ELSE IF t # 0 THEN <<w, t>> ELSE <<w>>

\* parseFloat of such a string, in hundredths.
parseFloat(str) ==
  100 * str[1] + (IF Len(str) >= 2 THEN 10 * str[2] ELSE 0)
              + (IF Len(str) >= 3 THEN str[3] ELSE 0)

\* toString of a count: its decimal digits.
intToString(n) == IF n < 10 THEN <<n>> ELSE <<n \div 10, n % 10>>

\* parseInt(str) || 0; the empty sequence stands for a missing field or key.
parseIntOr0(str) ==
  IF Len(str) = 0 THEN 0
  ELSE IF Len(str) = 1 THEN str[1] ELSE 10 * str[1] + str[2]

\* A counter that a second writer does not move.
setIfAbsent(v) == IF v = 0 THEN 1 ELSE v

\* INCR: the new value of the counter (an absent key counts as 0).
incr(v) == v + 1

\* GET demand:{geoCell}
getDemand == IF demand = 0 THEN <<>> ELSE intToString(demand)

\* getSurgeForCell(geoCell): the cached entry, else the default.
getSurgeForCell ==
  IF Len(surgeCache.multiplier) > 0
  THEN [surgeMultiplier |-> parseFloat(surgeCache.multiplier),
        supplyCount |-> parseIntOr0(surgeCache.supply),
        demandCount |-> parseIntOr0(surgeCache.demand)]
  ELSE [surgeMultiplier |-> SURGE_MIN, supplyCount |-> 0, demandCount |-> 0]

\* The handler holds the entry getSurgeForCell returned.
WithSurge(pr, data) ==
  [pr EXCEPT !.surgeMultiplier = data.surgeMultiplier,
             !.supplyCount = data.supplyCount,
             !.demandCount = data.demandCount,
             !.keyAbsentAtArrival = (surgeCache = NoSurge)]

\* One step of a surge handler: its new record, the new demand counter and
\* its TTL, the new cache entry and cell set, the new count of returned
\* increments.
SurgeStep(p, np, nd, nt, nc, ns, ni) ==
  /\ procs' = [procs EXCEPT ![p] = np]
  /\ demand' = nd
  /\ demandTTL' = nt
  /\ surgeCache' = nc
  /\ surgeCells' = ns
  /\ incrCompleted' = ni
  /\ UNCHANGED <<rides, offers, offerKey, driverMeta, presence, idemCache,
                 firstSuccess, vehicleType, trips, acceptedCount,
                 toldAccepted, timeoutActed, locVars>>

\* A request that reads the stores only.
SurgeRead(p, np) ==
  SurgeStep(p, np, demand, demandTTL, surgeCache, surgeCells, incrCompleted)

\* incrementDemand has returned: to the controller, or to createRideRequest,
\* which goes on with getSurgeForLocation.
AfterIncr(pr) ==
  IF pr.op = "create" THEN [pr EXCEPT !.pc = "gl_cell"]
  ELSE [pr EXCEPT !.pc = "done", !.result = "INCREMENTED"]

\* POST /surge/demand, or POST /rides: redis.incr(demandKey).
IncrementDemand(p, op) ==
  /\ FreeSlot(p)
  /\ op = "create" =>
       /\ \E r \in RideIds : rides[r].status = "NONE"
       /\ \A q \in ProcIds : procs[q].op # "create"
  /\ calls' = calls + 1
  /\ LET pr == [IdleProc EXCEPT !.op = op, !.count = incr(demand)]
     IN IF pr.count = 1
        THEN SurgeStep(p, [pr EXCEPT !.pc = "incr_expire"], pr.count,
                       demandTTL, surgeCache, surgeCells, incrCompleted)
        ELSE SurgeStep(p, AfterIncr(pr), pr.count, demandTTL, surgeCache,
                       surgeCells, incrCompleted + 1)

\* if (count === 1) redis.expire(demandKey, DEMAND_COUNTER_TTL)
IncrExpire(p) ==
  /\ At(p, "incr_expire")
  /\ UNCHANGED calls
  /\ SurgeStep(p, AfterIncr(procs[p]), demand, demand > 0, surgeCache,
               surgeCells, incrCompleted + 1)

\* The demand key reaches its TTL: the next INCR starts from an absent key.
DemandExpires ==
  /\ demand > 0
  /\ demandTTL
  /\ demand' = 0
  /\ demandTTL' = FALSE
  /\ incrCompleted' = 0
  /\ UNCHANGED <<rides, offers, offerKey, driverMeta, presence, procs, calls,
                 idemCache, firstSuccess, vehicleType, surgeCache, surgeCells,
                 trips, acceptedCount, toldAccepted, timeoutActed, locVars>>

\* GET /surge/:geoCell
GetSurgeForCell(p) ==
  /\ FreeSlot(p)
  /\ calls' = calls + 1
  /\ SurgeRead(p, WithSurge([IdleProc EXCEPT !.pc = "done", !.op = "cell",
                                             !.result = "SURGE"],
                            getSurgeForCell))

\* getSurgeForLocation: the cell's entry; calculateSurge when it has supply 0
\* and demand 0.
GlCell(p) ==
  /\ At(p, "gl_cell")
  /\ UNCHANGED calls
  /\ LET data == getSurgeForCell
         pr == WithSurge(procs[p], data)
     IN IF data.supplyCount = 0 /\ data.demandCount = 0
        THEN SurgeRead(p, Advance(
               [pr EXCEPT !.results = georadius(SUPPLY_RADIUS_KM, NumDrivers)],
               1))
        ELSE SurgeRead(p, [pr EXCEPT !.pc = "cr_insert"])

\* POST /surge/calculate: calculateSurge starts with getSupplyCount.
CalculateSurge(p) ==
  /\ FreeSlot(p)
  /\ calls' = calls + 1
  /\ SurgeRead(p, Advance(
       [IdleProc EXCEPT !.op = "calc",
                        !.results = georadius(SUPPLY_RADIUS_KM, NumDrivers)],
       1))

\* redis.get(demandKey), then computeSurgeMultiplier.
CsDemand(p) ==
  /\ At(p, "cs_demand")
  /\ UNCHANGED calls
  /\ LET pr == procs[p]
         dem == parseIntOr0(getDemand)
     IN SurgeRead(p, [pr EXCEPT !.pc = "cs_hset", !.demandCount = dem,
                       !.surgeMultiplier =
                         computeSurgeMultiplier(pr.supplyCount, dem)])

\* redis.hset(cacheKey, multiplier, supply, demand, ...): a key that exists
\* keeps its TTL, a new key has none.
CsHset(p) ==
  /\ At(p, "cs_hset")
  /\ UNCHANGED calls
  /\ LET pr == procs[p]
     IN SurgeStep(p, [pr EXCEPT !.pc = "cs_expire"], demand, demandTTL,
                  [multiplier |-> numToString(pr.surgeMultiplier),
                   supply |-> intToString(pr.supplyCount),
                   demand |-> intToString(pr.demandCount),
                   ttl |-> surgeCache.ttl],
                  surgeCells, incrCompleted)

\* redis.expire(cacheKey, SURGE_CACHE_TTL), then redis.sadd of the cell and
\* the surge.updated event; calculateSurge returns what it computed.
CsExpire(p) ==
  /\ At(p, "cs_expire")
  /\ UNCHANGED calls
  /\ LET pr == procs[p]
     IN SurgeStep(p, [pr EXCEPT !.pc = "cs_sadd"], demand, demandTTL,
                  IF surgeCache = NoSurge THEN NoSurge
                  ELSE [surgeCache EXCEPT !.ttl = TRUE],
                  surgeCells, incrCompleted)

CsSadd(p) ==
  /\ At(p, "cs_sadd")
  /\ UNCHANGED calls
  /\ LET pr == procs[p]
     IN SurgeStep(p,
                  IF pr.op = "create" THEN [pr EXCEPT !.pc = "cr_insert"]
                  ELSE [pr EXCEPT !.pc = "done", !.result = "SURGE"],
                  demand, demandTTL, surgeCache, TRUE, incrCompleted)

\* The surge entry reaches its TTL.
SurgeCacheExpires ==
  /\ surgeCache # NoSurge
  /\ surgeCache.ttl
  /\ surgeCache' = NoSurge
  /\ UNCHANGED <<rides, offers, offerKey, driverMeta, presence, procs, calls,
                 idemVars, vehicleType, demandTTL, surgeCells, trips,
                 incrCompleted, acceptedCount, toldAccepted, timeoutActed,
                 locVars>>

\* GET /surge/region/:region?minSurge=: SMEMBERS of the cell set.
GetSurgeZones(p, minSurge) ==
  /\ FreeSlot(p)
  /\ calls' = calls + 1
  /\ SurgeRead(p, IF surgeCells
                  THEN [IdleProc EXCEPT !.pc = "zn_cell", !.op = "zones",
                                        !.limit = minSurge]
                  ELSE [IdleProc EXCEPT !.pc = "done", !.op = "zones",
                                        !.result = "ZONES"])

\* getSurgeForCell of the member; it is a zone when its multiplier is at
\* least minSurge.
ZnCell(p) ==
  /\ At(p, "zn_cell")
  /\ UNCHANGED calls
  /\ LET data == getSurgeForCell
         pr == [procs[p] EXCEPT !.pc = "done", !.result = "ZONES"]
     IN SurgeRead(p, IF data.surgeMultiplier >= pr.limit
                     THEN WithSurge(pr, data) ELSE pr)

\* INSERT INTO ride_requests (..., surge_multiplier, ...): the column is
\* DECIMAL(3, 2), which holds the hundredths as they are.  The ride.requested
\* event follows and matchDriver starts.
CrInsertRide(p) ==
  /\ At(p, "cr_insert")
  /\ procs[p].key = NoKey
  /\ \E r \in RideIds :
       /\ rides[r].status = "NONE"
       /\ \A q \in RideIds : q < r => rides[q].status # "NONE"
       /\ rides' = [rides EXCEPT ![r] =
            [NoRide EXCEPT !.status = "MATCHING",
                           !.idempotency_key = FreshKey(r),
                           !.surge_multiplier = procs[p].surgeMultiplier]]
       /\ procs' = [procs EXCEPT ![p] =
            [@ EXCEPT !.pc = "md_find", !.ride = r, !.changed = TRUE]]
  /\ UNCHANGED <<offers, offerKey, driverMeta, presence, calls,
                 acceptedCount, toldAccepted, timeoutActed, idemVars, extVars>>

\* Any drivers are ONLINE; the scan of getSupplyCount is the location
\* service's.
SurgeInit ==
  /\ rides = [r \in RideIds |-> NoRide]
  /\ offers = <<>>
  /\ offerKey = [r \in RideIds |-> NoEntry]
  /\ driverMeta \in [Drivers -> {"ONLINE", "OFFLINE"}]
  /\ presence = [d \in Drivers |-> TRUE]
  /\ procs = [p \in ProcIds |-> IdleProc]
  /\ calls = 0
  /\ idemCache = [k \in IdemKeys |-> NoRecord]
  /\ demand = 0
  /\ acceptedCount = [r \in RideIds |-> 0]
  /\ toldAccepted = {}
  /\ timeoutActed = {}
  /\ firstSuccess = [k \in IdemKeys |-> NoSuccess]
  /\ vehicleType = [d \in Drivers |-> "ECONOMY"]
  /\ NoSurgeState

SurgeNext ==
  \/ \E p \in ProcIds, op \in {"incr", "create"} : IncrementDemand(p, op)
  \/ \E p \in ProcIds : IncrExpire(p)
  \/ \E p \in ProcIds : GetSurgeForCell(p)
  \/ \E p \in ProcIds : GlCell(p)
  \/ \E p \in ProcIds : CalculateSurge(p)
  \/ \E p \in ProcIds : FnExists(p)
  \/ \E p \in ProcIds : FnMeta(p)
  \/ \E p \in ProcIds : CsDemand(p)
  \/ \E p \in ProcIds : CsHset(p)
  \/ \E p \in ProcIds : CsExpire(p)
  \/ \E p \in ProcIds : CsSadd(p)
  \/ \E p \in ProcIds, minSurge \in {SURGE_MIN, SURGE_MAX} :
        GetSurgeZones(p, minSurge)
  \/ \E p \in ProcIds : ZnCell(p)
  \/ \E p \in ProcIds : CrInsertRide(p)
  \/ \E p \in ProcIds : MdFind(p)
  \/ \E p \in ProcIds : MdNoDrivers(p)
  \/ \E p \in ProcIds : MdInsertOffer(p)
  \/ \E p \in ProcIds : MdUpdateRide(p)
  \/ \E p \in ProcIds : MdSetKey(p)
  \/ \E p \in ProcIds : Respond(p)
  \/ DemandExpires
  \/ SurgeCacheExpires

SurgeSpec == SurgeInit /\ [][SurgeNext]_vars

(* ---- trip service: createTrip ---- *)

\* The ids of the trips rows of ride r.
TripsOf(r) == {i \in 1..Len(trips) : trips[i].ride_request_id = r}

tripFrame == <<offers, offerKey, driverMeta, presence, acceptedCount,
               toldAccepted, timeoutActed, idemVars, vehicleType, demandTTL,
               surgeCache, surgeCells, incrCompleted, locVars>>

\* POST /trips {rideRequestId: r}: SELECT * FROM ride_requests WHERE id = r
\* AND status = 'ACCEPTED'.  Without a row createTrip throws, and the
\* controller answers 400.
CreateTrip(p, r) ==
  /\ FreeSlot(p)
  /\ Addressable(r)
  /\ calls' = calls + 1
  /\ procs' = [procs EXCEPT ![p] =
       IF rides[r].status = "ACCEPTED"
       THEN [IdleProc EXCEPT !.pc = "ct_existing", !.op = "trip", !.ride = r,
                             !.driverId = rides[r].driver_id]
       ELSE [IdleProc EXCEPT !.pc = "done", !.op = "trip", !.ride = r,
                             !.result = "INVALID_RIDE", !.statusCode = 400]]
  /\ UNCHANGED <<rides, trips>>
  /\ UNCHANGED tripFrame

\* SELECT id FROM trips WHERE ride_request_id = r: an existing trip is
\* returned through getTripById.
CtExisting(p) ==
  /\ At(p, "ct_existing")
  /\ LET pr == procs[p]
     IN procs' = [procs EXCEPT ![p] =
          IF TripsOf(pr.ride) # {}
          THEN [pr EXCEPT !.pc = "done", !.result = "TRIP",
                          !.statusCode = 201,
                          !.tripId = CHOOSE i \in TripsOf(pr.ride) : TRUE]
          ELSE [pr EXCEPT !.pc = "ct_insert"]]
  /\ UNCHANGED <<rides, trips, calls>>
  /\ UNCHANGED tripFrame

\* INSERT INTO trips: ride_request_id is UNIQUE, a second row for the ride
\* raises 23505, which the controller answers as an error.  Else the
\* trip.created event is published and the new trip returned.
CtInsert(p) ==
  /\ At(p, "ct_insert")
  /\ LET pr == procs[p]
     IN IF TripsOf(pr.ride) # {}
        THEN /\ procs' = [procs EXCEPT ![p] =
                  [pr EXCEPT !.pc = "done", !.result = "DUPLICATE_KEY",
                             !.statusCode = 400]]
             /\ UNCHANGED trips
        ELSE /\ trips' = Append(trips, [ride_request_id |-> pr.ride,
                                        driver_id |-> pr.driverId,
                                        status |-> "PENDING"])
             /\ procs' = [procs EXCEPT ![p] =
                  [pr EXCEPT !.pc = "done", !.result = "TRIP",
                             !.statusCode = 201, !.tripId = Len(trips) + 1]]
  /\ UNCHANGED <<rides, calls>>
  /\ UNCHANGED tripFrame

\* A ride that driver 1 has accepted, or one still being matched.
TripInit ==
  /\ \E st \in {"ACCEPTED", "MATCHING"} :
       rides = [r \in RideIds |->
                 [NoRide EXCEPT !.status = st,
                                !.driver_id = IF st = "ACCEPTED" THEN 1
                                              ELSE NoDriver,
                                !.idempotency_key = FreshKey(r)]]
  /\ offers = <<>>
  /\ offerKey = [r \in RideIds |-> NoEntry]
  /\ driverMeta = [d \in Drivers |-> "ONLINE"]
  /\ presence = [d \in Drivers |-> TRUE]
  /\ procs = [p \in ProcIds |-> IdleProc]
  /\ calls = 0
  /\ idemCache = [k \in IdemKeys |-> NoRecord]
  /\ demand = 0
  /\ acceptedCount = [r \in RideIds |-> 0]
  /\ toldAccepted = {}
  /\ timeoutActed = {}
  /\ firstSuccess = [k \in IdemKeys |-> NoSuccess]
  /\ vehicleType = [d \in Drivers |-> "ECONOMY"]
  /\ NoSurgeState

TripNext ==
  \/ \E p \in ProcIds, r \in RideIds : CreateTrip(p, r)
  \/ \E p \in ProcIds : CtExisting(p)
  \/ \E p \in ProcIds : CtInsert(p)
  \/ \E p \in ProcIds : Respond(p)
  \/ \E r \in RideIds : CancelRide(r)

TripSpec == TripInit /\ [][TripNext]_vars

(* ---- trip service: the trip's life ---- *)

TripOps == {"start", "pause", "resume", "end", "cancel"}

\* The statuses in which the method goes on to its UPDATE.
AllowedIn(op) ==
  CASE op = "start" -> {"PENDING"}
    [] op = "pause" -> {"STARTED"}
    [] op = "resume" -> {"PAUSED"}
    [] op = "end" -> {"STARTED", "PAUSED"}
    [] op = "cancel" -> {"PENDING", "STARTED", "PAUSED"}

\* The status the method's UPDATE sets.
TargetOf(op) ==
  CASE op = "start" -> "STARTED"
    [] op = "pause" -> "PAUSED"
    [] op = "resume" -> "STARTED"
    [] op = "end" -> "COMPLETED"
    [] op = "cancel" -> "CANCELLED"

\* The status updateDriverStatus is called with after the UPDATE.
DriverStatusAfter(op) ==
  CASE op = "start" -> "ON_TRIP"
    [] op = "end" -> "ONLINE"
    [] op = "cancel" -> "ONLINE"
    [] OTHER -> "none"

tripLifeFrame == <<rides, offers, offerKey, presence, acceptedCount,
                   toldAccepted, timeoutActed, idemVars, vehicleType,
                   demandTTL, surgeCache, surgeCells, incrCompleted, locVars>>

\* POST /trips/:tripId/{start,pause,resume,end,cancel}: the trip row is
\* selected; a status the method does not allow makes it throw.
TripRequest(p, t, op) ==
  /\ FreeSlot(p)
  /\ t \in 1..Len(trips)
  /\ calls' = calls + 1
  /\ procs' = [procs EXCEPT ![p] =
       IF trips[t].status \in AllowedIn(op)
       THEN [IdleProc EXCEPT !.pc = "tl_update", !.op = "tripop",
                             !.action = op, !.tripId = t,
                             !.driverId = trips[t].driver_id]
       ELSE [IdleProc EXCEPT !.pc = "done", !.op = "tripop", !.action = op,
                             !.tripId = t, !.result = "REJECTED",
                             !.statusCode = 400]]
  /\ UNCHANGED <<trips, driverMeta>>
  /\ UNCHANGED tripLifeFrame

\* UPDATE trips SET status = ... WHERE id = $n
TlUpdate(p) ==
  /\ At(p, "tl_update")
  /\ LET pr == procs[p]
     IN /\ trips' = [trips EXCEPT ![pr.tripId].status = TargetOf(pr.action)]
        /\ procs' = [procs EXCEPT ![p] =
             IF DriverStatusAfter(pr.action) = "none"
             THEN [pr EXCEPT !.pc = "done", !.result = TargetOf(pr.action)]
             ELSE [pr EXCEPT !.pc = "tl_driver"]]
  /\ UNCHANGED <<calls, driverMeta>>
  /\ UNCHANGED tripLifeFrame

\* driverLocationService.updateDriverStatus(driverId, ...), then the event
\* and the return.
TlDriverStatus(p) ==
  /\ At(p, "tl_driver")
  /\ LET pr == procs[p]
     IN /\ driverMeta' = [driverMeta EXCEPT ![pr.driverId] =
                            DriverStatusAfter(pr.action)]
        /\ procs' = [procs EXCEPT ![p] =
             [pr EXCEPT !.pc = "done", !.result = TargetOf(pr.action)]]
  /\ UNCHANGED <<calls, trips>>
  /\ UNCHANGED tripLifeFrame

\* Ride 1 was accepted by driver 1 and its trip has been created.
TripLifeInit ==
  /\ rides = [r \in RideIds |->
               [NoRide EXCEPT !.status = "ACCEPTED", !.driver_id = 1,
                              !.idempotency_key = FreshKey(r)]]
  /\ offers = <<>>
  /\ offerKey = [r \in RideIds |-> NoEntry]
  /\ driverMeta = [d \in Drivers |-> IF d = 1 THEN "ON_TRIP" ELSE "ONLINE"]
  /\ presence = [d \in Drivers |-> TRUE]
  /\ procs = [p \in ProcIds |-> IdleProc]
  /\ calls = 0
  /\ idemCache = [k \in IdemKeys |-> NoRecord]
  /\ demand = 0
  /\ acceptedCount = [r \in RideIds |-> 0]
  /\ toldAccepted = {}
  /\ timeoutActed = {}
  /\ firstSuccess = [k \in IdemKeys |-> NoSuccess]
  /\ vehicleType = [d \in Drivers |-> "ECONOMY"]
  /\ demandTTL = FALSE
  /\ surgeCache = NoSurge
  /\ surgeCells = FALSE
  /\ trips = <<[ride_request_id |-> 1, driver_id |-> 1, status |-> "PENDING"]>>
  /\ incrCompleted = 0
  /\ geoSet = NoGeo
  /\ lastPos = [d \in Drivers |-> NoPos]

TripLifeNext ==
  \/ \E p \in ProcIds, t \in 1..MaxRides, op \in TripOps : TripRequest(p, t, op)
  \/ \E p \in ProcIds : TlUpdate(p)
  \/ \E p \in ProcIds : TlDriverStatus(p)
  \/ \E p \in ProcIds : Respond(p)

TripLifeSpec == TripLifeInit /\ [][TripLifeNext]_vars

(* ---- failures of the stores and of the event bus ---- *)

\* The controller's promise is rejected: asyncHandler passes the error to
\* errorHandler, which answers 500.
Rejected(pr, what) ==
  [pr EXCEPT !.pc = "done", !.result = "INTERNAL_ERROR", !.statusCode = 500,
             !.failed = what]

faultFrame == <<rides, offers, offerKey, driverMeta, presence, calls,
                acceptedCount, toldAccepted, timeoutActed, idemVars, extVars>>

\* A command of getSurgeForLocation (or of the calculateSurge it calls) is
\* rejected while createRideRequest awaits it.
SurgeLookupFails(p) ==
  /\ procs[p].op = "create"
  /\ procs[p].pc \in {"gl_cell", "fn_exists", "fn_meta", "cs_demand",
                       "cs_hset", "cs_expire", "cs_sadd"}
  /\ procs' = [procs EXCEPT ![p] = Rejected(@, "surge")]
  /\ UNCHANGED faultFrame

\* publishEvent(RIDE_REQUESTED) is rejected: prod.send throws after the
\* INSERT and before matchDriver is called.
PublishFails(p) ==
  /\ procs[p].op = "create"
  /\ At(p, "md_find")
  /\ procs' = [procs EXCEPT ![p] = Rejected(@, "publish")]
  /\ UNCHANGED faultFrame

FaultNext ==
  \/ SurgeNext
  \/ \E p \in ProcIds : SurgeLookupFails(p)
  \/ \E p \in ProcIds : PublishFails(p)

FaultSpec == SurgeInit /\ [][FaultNext]_vars

\* POST /surge/demand alone, with time passing.  A reply of the key-value
\* store resumes the handler that awaits it, and a key with a TTL expires.
DemandNext ==
  \/ \E p \in ProcIds : IncrementDemand(p, "incr")
  \/ \E p \in ProcIds : IncrExpire(p)
  \/ \E p \in ProcIds : Respond(p)
  \/ DemandExpires

DemandFairness ==
  /\ \A p \in ProcIds : WF_vars(IncrExpire(p))
  /\ WF_vars(DemandExpires)

DemandSpec == Init /\ [][DemandNext]_vars /\ DemandFairness

\* computeSurgeMultiplier is applied to the counts the handler holds.
ComputeSurge(p) ==
  /\ At(p, "compute")
  /\ LET pr == procs[p]
     IN procs' = [procs EXCEPT ![p] =
          [pr EXCEPT !.pc = "computed",
                     !.surgeMultiplier =
                       computeSurgeMultiplier(pr.supplyCount, pr.demandCount)]]
  /\ UNCHANGED <<rides, offers, offerKey, driverMeta, presence, calls,
                 acceptedCount, toldAccepted, timeoutActed, idemVars, extVars>>

\* Any supply and demand counts up to the bounds.
ComputeInit ==
  /\ rides = [r \in RideIds |-> NoRide]
  /\ offers = <<>>
  /\ offerKey = [r \in RideIds |-> NoEntry]
  /\ driverMeta = [d \in Drivers |-> "ONLINE"]
  /\ presence = [d \in Drivers |-> TRUE]
  /\ \E sup \in 0..MaxSupply, dem \in 0..MaxDemand :
       procs = [p \in ProcIds |->
                 IF p = 1
                 THEN [IdleProc EXCEPT !.pc = "compute", !.op = "compute",
                                       !.supplyCount = sup,
                                       !.demandCount = dem]
                 ELSE IdleProc]
  /\ calls = 0
  /\ idemCache = [k \in IdemKeys |-> NoRecord]
  /\ demand = 0
  /\ acceptedCount = [r \in RideIds |-> 0]
  /\ toldAccepted = {}
  /\ timeoutActed = {}
  /\ firstSuccess = [k \in IdemKeys |-> NoSuccess]
  /\ vehicleType = [d \in Drivers |-> "ECONOMY"]
  /\ NoSurgeState

ComputeNext == \E p \in ProcIds : ComputeSurge(p)

ComputeSpec == ComputeInit /\ [][ComputeNext]_vars

(* ======================================================================= *)
(* Properties                                                              *)
(* ======================================================================= *)

\* A handler of handleDriverResponse (called by a driver or by checkTimeout)
\* that has loaded the ride and has not returned yet.
InResponseBody(p) ==
  /\ procs[p].op \in {"response", "timeout"}
  /\ procs[p].pc \notin {"idle", "done", "ct_get", "hdr_select"}

\* No handler is working on ride r.
Quiescent(r) ==
  \A p \in ProcIds : procs[p].pc \in {"idle", "done"} \/ procs[p].ride # r

PendingOffers(r) ==
  {i \in 1..Len(offers) : offers[i].ride = r /\ offers[i].status = "PENDING"}

\* The ride has an offer outstanding: the state the documented state machine
\* names DRIVER_OFFERED.  matchDriver leaves the status column at MATCHING
\* and sets current_driver_offer_id.
DriverOffered(r) ==
  \/ rides[r].status = "DRIVER_OFFERED"
  \/ rides[r].status = "MATCHING" /\ rides[r].current_driver_offer_id # NoOffer

\* C1: for any ride, at most one ACCEPT response returns {status: ACCEPTED},
\* whatever the interleaving and whoever the responding drivers are.
C1_AtMostOneAccepted == \A r \in RideIds : acceptedCount[r] <= 1

\* C2: two executions of the body of handleDriverResponse for the same ride
\* never overlap (the per-ride lock turns the second caller away).
C2_BodiesNeverOverlap ==
  \A p, q \in ProcIds :
    (p # q /\ InResponseBody(p) /\ InResponseBody(q))
      => procs[p].ride # procs[q].ride

\* C3: for one offer, the driver's ACCEPT and the timeout's DECLINE do not
\* both take effect: no offer has its ACCEPT answered ACCEPTED while its
\* timeout created a replacement offer or set the ride EXPIRED.
C3_AcceptXorTimeout == toldAccepted \cap timeoutActed = {}

\* C4: a response to a ride that is already terminal, or from a driver who is
\* not the driver of the PENDING offer referenced by current_driver_offer_id,
\* fails with OFFER_INVALID and changes no ride, offer or driver state.
C4_InvalidResponseRejected ==
  \A p \in ProcIds :
    (procs[p].pc = "done" /\ procs[p].op = "response" /\ procs[p].invalidAtLoad)
      => (procs[p].result = "OFFER_INVALID" /\ ~procs[p].changed)

\* C5: a response to the ride's pending offer that arrives after the
\* fast-lookup entry ride:{rideId}:offer has disappeared fails with
\* OFFER_EXPIRED (in particular it never returns ACCEPTED).
C5_StaleResponseExpired ==
  \A p \in ProcIds :
    (procs[p].pc = "done" /\ procs[p].op = "response"
       /\ procs[p].keyAbsentAtArrival /\ ~procs[p].invalidAtLoad
       /\ procs[p].result # "RIDE_NOT_FOUND")
      => procs[p].result = "OFFER_EXPIRED"

\* C6: every ride with an offer outstanding (DRIVER_OFFERED) has exactly one
\* PENDING offer, and that offer is the one current_driver_offer_id names.
C6_OfferedHasOnePending ==
  \A r \in RideIds :
    (DriverOffered(r) /\ Quiescent(r))
      => PendingOffers(r) = {rides[r].current_driver_offer_id}

\* C7: a ride in a terminal status (ACCEPTED, NO_DRIVERS, EXPIRED, CANCELLED)
\* has no offer left in PENDING.
C7_TerminalHasNoPending ==
  \A r \in RideIds :
    (rides[r].status \in TerminalStatuses /\ Quiescent(r))
      => PendingOffers(r) = {}

\* C8: for every pair (rideId, driverId) at most one offer is PENDING at any
\* instant.
C8_OnePendingPerPair ==
  \A r \in RideIds, d \in Drivers :
    Cardinality({i \in PendingOffers(r) : offers[i].driver = d}) <= 1

\* C9: match_attempts of a ride never exceeds MAX_MATCH_ATTEMPTS, under any
\* interleaving of driver responses and timeout checks.
C9_MatchAttemptsBounded ==
  \A r \in RideIds : rides[r].match_attempts <= MAX_MATCH_ATTEMPTS

\* C10: offer status is monotonic: an offer that has left PENDING never
\* changes its status again.
C10_OfferStatusMonotonic ==
  [][\A i \in 1..Len(offers) :
       offers[i].status # "PENDING" => offers'[i].status = offers[i].status]_vars

\* C11: terminal ride statuses are absorbing: once a ride is ACCEPTED,
\* NO_DRIVERS, EXPIRED or CANCELLED, no step of any handler changes its status
\* or inserts a new offer for it.
C11_TerminalAbsorbing ==
  [][\A r \in RideIds :
       rides[r].status \in TerminalStatuses =>
         /\ rides'[r].status = rides[r].status
         /\ \A i \in 1..Len(offers') :
              i > Len(offers) => offers'[i].ride # r]_vars

\* C12: cancelRide is a no-op on a ride that is already terminal: cancelling
\* an ACCEPTED, EXPIRED, NO_DRIVERS or CANCELLED ride leaves its status as it
\* was.
C12_CancelTerminalNoOp ==
  [][\A r \in RideIds :
       (CancelRide(r) /\ rides[r].status \in TerminalStatuses)
         => rides'[r].status = rides[r].status]_vars

\* C13: a new offer for ride R never goes to a driver who already has a
\* DECLINED or EXPIRED offer for R.
C13_DeclinerNotReoffered ==
  [][\A i \in 1..Len(offers') :
       i > Len(offers) =>
         ~\E j \in 1..Len(offers) :
            /\ offers[j].ride = offers'[i].ride
            /\ offers[j].driver = offers'[i].driver
            /\ offers[j].status \in {"DECLINED", "EXPIRED"}]_vars

\* C16: checkTimeout on a ride with an outstanding offer processes a timeout
\* and returns {timedOut: true} exactly when the fast-lookup entry is absent
\* or its expiresAt has passed; when it returns {timedOut: false} it has
\* changed nothing.
C16_TimeoutWhenAbsentOrExpired ==
  \A p \in ProcIds :
    (procs[p].pc = "done" /\ procs[p].op = "timeout" /\ procs[p].pendingAtRead)
      => /\ (procs[p].result = "TIMED_OUT")
              <=> (procs[p].keyAbsentAtArrival \/ procs[p].keyExpiredAtRead)
         /\ procs[p].result = "NOT_TIMED_OUT" => ~procs[p].changed

\* C20: ACCEPT is atomic over ride and offer: in no reachable state is a ride
\* ACCEPTED while the offer named by its current_driver_offer_id is not
\* ACCEPTED.
C20_AcceptAtomic ==
  \A r \in RideIds :
    (rides[r].status = "ACCEPTED" /\ rides[r].current_driver_offer_id # NoOffer)
      => offers[rides[r].current_driver_offer_id].status = "ACCEPTED"

\* C14: while checkTimeout keeps being polled, every offer that is PENDING
\* eventually leaves PENDING, even when the driver never responds.
C14_PendingEventuallyLeaves ==
  \A i \in 1..MaxOffers :
    (Len(offers) >= i /\ offers[i].status = "PENDING")
      ~> (Len(offers) >= i /\ offers[i].status # "PENDING")

\* C15: every created ride eventually reaches a terminal status (ACCEPTED,
\* NO_DRIVERS, EXPIRED or CANCELLED) while drivers respond or checkTimeout
\* keeps being polled.
C15_RideEventuallyTerminal ==
  \A r \in RideIds :
    (rides[r].status # "NONE") ~> (rides[r].status \in TerminalStatuses)

\* C17: once the first request with key k has been answered 201, a later
\* request with k and the same body receives the same payload without
\* creating a ride, an offer or a demand increment, and one with a different
\* body fails with a conflict, again without effect.
C17_ReplayEquivalent ==
  \A p \in ProcIds :
    (procs[p].pc = "sent" /\ procs[p].successAtArrival # NoSuccess)
      => /\ ~procs[p].changed
         /\ IF procs[p].body = procs[p].successAtArrival.request
            THEN procs[p].payload = procs[p].successAtArrival.payload
            ELSE procs[p].result = "CONFLICT"

\* C18: of two requests in flight with the same idempotency key and the same
\* body only the first writer takes effect: the key never has two rides, and
\* the two requests never both increment the demand counter.
C18_FirstWriterWins ==
  /\ \A k \in IdemKeys :
       Cardinality({r \in RideIds : rides[r].status # "NONE"
                                     /\ rides[r].idempotency_key = k}) <= 1
  /\ \A p, q \in ProcIds :
       (/\ p # q
        /\ procs[p].pc # "idle" /\ procs[q].pc # "idle"
        /\ procs[p].key # NoKey
        /\ procs[p].key = procs[q].key /\ procs[p].body = procs[q].body)
         => ~(procs[p].changed /\ procs[q].changed)

\* C19: an idempotency record is written only by a successful (201) response
\* and only when the key has no record yet: a failed request leaves none and
\* an existing record is never replaced.
C19_CacheWrittenOnceOnSuccess ==
  [][\A k \in IdemKeys :
       idemCache'[k] # idemCache[k]
         => (idemCache[k] = NoRecord /\ idemCache'[k].statusCode = 201)]_vars

\* C21: when an ACCEPT returns {status: ACCEPTED, driverId}, the accepting
\* driver's status is ON_TRIP, the ride has no fast-lookup offer entry, and
\* findNearbyDrivers does not return the driver.
C21_AcceptPostcondition ==
  [][\A p \in ProcIds :
       (procs[p].pc = "acc_return" /\ procs'[p].pc = "done"
          /\ procs'[p].result = "ACCEPTED")
         => /\ driverMeta'[procs[p].driverId] = "ON_TRIP"
            /\ offerKey'[procs[p].ride] = NoEntry
            /\ ~IsEligible(procs[p].driverId)']_vars

\* The queries of the location service that have returned.
Returned(op) == {p \in ProcIds : procs[p].pc = "done" /\ procs[p].op = op}

\* C22: every driver findNearbyDrivers returns has status ONLINE and a live
\* presence key at the time the method returns, also when a status change or
\* a presence expiry interleaves with the query.
C22_ReturnedOnlineAtResponse ==
  [][\A p \in ProcIds :
       (procs[p].pc # "done" /\ procs'[p].pc = "done"
          /\ procs'[p].op = "nearby")
         => \A i \in 1..Len(procs'[p].drivers) :
              /\ driverMeta'[procs'[p].drivers[i]] = "ONLINE"
              /\ presence'[procs'[p].drivers[i]]]_vars

\* C23: the list findNearbyDrivers returns is sorted by ascending distance,
\* holds only drivers within radiusKm, only drivers of the requested vehicle
\* type when one is given, and at most `limit` entries.
C23_NearbyListShape ==
  \A p \in Returned("nearby") :
    LET ds == procs[p].drivers
    IN /\ \A i, j \in 1..Len(ds) : i < j => Dist(ds[i]) <= Dist(ds[j])
       /\ \A i \in 1..Len(ds) : Dist(ds[i]) <= procs[p].radiusKm
       /\ procs[p].tier # "ANY"
            => \A i \in 1..Len(ds) : driverVehicleType(ds[i]) = procs[p].tier
       /\ Len(ds) <= procs[p].limit

\* A query with a tier got two drivers from GEORADIUS and returned the one
\* of its tier; the other, ONLINE and present, is of another vehicle type.
C23_Witness ==
  \E p \in Returned("nearby") :
    /\ procs[p].tier # "ANY"
    /\ Len(procs[p].results) = 2
    /\ Len(procs[p].drivers) = 1
    /\ driverVehicleType(procs[p].drivers[1]) = procs[p].tier
    /\ \E d \in SeqToSet(procs[p].results) :
         /\ driverVehicleType(d) # procs[p].tier
         /\ driverMeta[d] = "ONLINE"
         /\ presence[d]

TenthInRange(m) == m >= 100 /\ m <= 300 /\ m % 10 = 0

\* The handlers that hold a surge entry: read by getSurgeForCell (for the
\* cell route, the zones route or getSurgeForLocation) or returned by
\* calculateSurge.
HoldsSurge(p) ==
  \/ procs[p].pc = "done" /\ procs[p].op \in {"cell", "calc"}
  \/ procs[p].pc = "done" /\ procs[p].op = "zones"
       /\ procs[p].surgeMultiplier # 0
  \/ procs[p].pc = "cr_insert"

\* C26: every multiplier read from the surge cache and every surge
\* multiplier stored on a ride is in [1.0, 3.0] and a multiple of 0.1; a
\* read that finds no entry returns multiplier 1.0 with supply 0, demand 0.
C26_SurgeReadsInRange ==
  /\ \A p \in ProcIds :
       HoldsSurge(p) => TenthInRange(procs[p].surgeMultiplier)
  /\ \A r \in RideIds :
       rides[r].status # "NONE" => TenthInRange(rides[r].surge_multiplier)
  /\ \A p \in Returned("cell") :
       procs[p].keyAbsentAtArrival
         => /\ procs[p].surgeMultiplier = 100
            /\ procs[p].supplyCount = 0
            /\ procs[p].demandCount = 0

\* The cell route has read the entry 1.3 (supply 2, demand 3) that
\* calculateSurge cached, and a ride stores a multiplier above 1.0.
C26_Witness ==
  /\ \E p \in Returned("cell") :
       /\ ~procs[p].keyAbsentAtArrival
       /\ procs[p].surgeMultiplier = 130
       /\ procs[p].supplyCount = 2
       /\ procs[p].demandCount = 3
  /\ \E r \in RideIds : rides[r].surge_multiplier > 100

AnsweredAfter(what) ==
  {p \in ProcIds : /\ procs[p].pc = "done"
                   /\ procs[p].op = "create"
                   /\ procs[p].failed = what}

\* C28: when the surge lookup of createRideRequest fails, the request still
\* succeeds and the ride is created with surge multiplier 1.0.
C28_SurgeFailureNonFatal ==
  \A p \in AnsweredAfter("surge") :
    /\ procs[p].result # "INTERNAL_ERROR"
    /\ procs[p].ride \in RideIds
    /\ rides[procs[p].ride].surge_multiplier = 100

\* C29: when publishing an event fails, the operation completes with its
\* normal result and the ride is as matchDriver leaves it: offered to a
\* driver, or NO_DRIVERS.
C29_PublishFailureNonFatal ==
  \A p \in AnsweredAfter("publish") :
    /\ procs[p].result # "INTERNAL_ERROR"
    /\ \/ rides[procs[p].ride].status = "NO_DRIVERS"
       \/ rides[procs[p].ride].current_driver_offer_id # NoOffer

\* C30: a trip is inserted only while its ride is ACCEPTED, a ride never has
\* two trips, and every createTrip call that found the ride ACCEPTED
\* returns the one trip of the ride.
C30_OneTripPerAcceptedRide ==
  /\ [][\A r \in RideIds :
          TripsOf(r)' # TripsOf(r) => rides[r].status = "ACCEPTED"]_vars
  /\ [](\A r \in RideIds : Cardinality(TripsOf(r)) <= 1)
  /\ [](\A p \in Returned("trip") :
          procs[p].result # "INVALID_RIDE"
            => /\ procs[p].result = "TRIP"
               /\ TripsOf(procs[p].ride) = {procs[p].tripId})

\* The trip state machine.
TripTransitions ==
  {<<"PENDING", "STARTED">>, <<"STARTED", "PAUSED">>, <<"PAUSED", "STARTED">>,
   <<"STARTED", "COMPLETED">>, <<"PAUSED", "COMPLETED">>,
   <<"PENDING", "CANCELLED">>, <<"STARTED", "CANCELLED">>,
   <<"PAUSED", "CANCELLED">>}

\* C31: a trip's status changes only along the trip state machine, also
\* when calls for one trip run concurrently: COMPLETED and CANCELLED are
\* final, and a call made in a status it does not allow changes nothing.
C31_TripStateMachine ==
  [][\A t \in 1..Len(trips) :
       trips'[t].status # trips[t].status
         => <<trips[t].status, trips'[t].status>> \in TripTransitions]_vars

\* C32: when matchDriver has found a candidate and returns, the ride is
\* DRIVER_OFFERED, its current offer is the new PENDING offer, its driver is
\* the selected driver, and the fast-lookup entry names that offer.
C32_MatchLeavesRideOffered ==
  [][\A p \in ProcIds :
       (procs[p].pc = "md_set_key" /\ procs'[p].pc = "done")
         => LET r == procs[p].ride
                o == procs[p].offerId
            IN /\ rides'[r].status = "DRIVER_OFFERED"
               /\ rides'[r].current_driver_offer_id = o
               /\ rides'[r].driver_id = procs[p].selectedDriver
               /\ offers'[o].status = "PENDING"
               /\ offerKey'[r].offerId = o]_vars

\* C33: a DECLINE returns REASSIGNED only if its matchDriver created a new
\* offer for the ride; when matchDriver finds no driver the DECLINE returns
\* EXPIRED and the ride is EXPIRED.
C33_ReassignedMeansNewOffer ==
  [][\A p \in ProcIds :
       (procs[p].op = "response" /\ procs[p].action = "DECLINE"
          /\ procs[p].pc # "done" /\ procs'[p].pc = "done")
         => /\ procs'[p].result = "REASSIGNED" => procs[p].offerId # NoOffer
            /\ procs[p].pc = "md_no_drivers"
                 => /\ procs'[p].result = "EXPIRED"
                    /\ rides'[procs[p].ride].status = "EXPIRED"]_vars

\* The drivers findNearbyDrivers may return to query p: within its radius,
\* ONLINE, present and of its tier.
EligibleFor(p) ==
  {d \in DOMAIN driverMeta :
     /\ Dist(d) <= procs[p].radiusKm
     /\ driverMeta[d] = "ONLINE"
     /\ presence[d]
     /\ (procs[p].tier = "ANY" \/ driverVehicleType(d) = procs[p].tier)}

\* C34: if some driver is eligible, findNearbyDrivers returns a non-empty
\* list that contains the nearest eligible driver, however many nearer
\* drivers are ineligible.
C34_NearestEligibleReturned ==
  \A p \in Returned("nearby") :
    EligibleFor(p) # {}
      => \E i \in 1..Len(procs[p].drivers) :
           \A d \in EligibleFor(p) : Dist(procs[p].drivers[i]) <= Dist(d)

\* No updateLocation call for driver d is in flight.
LocationSettled(d) ==
  \A p \in ProcIds :
    ~(procs[p].op = "location" /\ procs[p].driverId = d
        /\ procs[p].pc # "done")

\* C35: once the updateLocation calls of a driver have returned, every
\* region geo set that contains the driver holds the position recorded as
\* lastLat/lastLng in the driver's metadata.
C35_GeoSetMatchesMeta ==
  \A d \in Drivers :
    LocationSettled(d)
      => \A g \in Regions :
           geoSet[g][d] # NoPos => geoSet[g][d] = lastPos[d]

\* Ride r is ACCEPTED with driver d.
AcceptedBy(r, d) == rides[r].status = "ACCEPTED" /\ rides[r].driver_id = d

\* C36: while a driver is ON_TRIP for a ride it accepted, no step makes
\* another ride ACCEPTED by the same driver.
C36_OnTripDriverCannotAccept ==
  [][\A r \in DOMAIN rides, d \in Drivers :
       (/\ driverMeta[d] = "ON_TRIP"
        /\ \E r2 \in DOMAIN rides : r2 # r /\ AcceptedBy(r2, d)
        /\ ~AcceptedBy(r, d))
         => ~(rides'[r].status = "ACCEPTED" /\ rides'[r].driver_id = d)]_vars

\* Drivers for whom matchDriver created an offer on ride r (each offer row
\* is followed by a ride.matched event for the pair).
MatchedDrivers(r) ==
  {offers[o].driver : o \in {i \in 1..Len(offers) : offers[i].ride = r}}

\* C37: whenever a ride is ACCEPTED, its driver is the driver of an offer
\* that matchDriver created for that ride.
C37_AcceptedDriverWasOffered ==
  \A r \in RideIds :
    rides[r].status = "ACCEPTED" => rides[r].driver_id \in MatchedDrivers(r)

\* The key ride:{r}:offer exists (it was set and has not reached its TTL).
KeyExists(r) == offerKey[r].offerId # NoOffer /\ ~offerKey[r].expired

\* C38: when no handler is working on the ride, an existing ride:{rideId}:offer entry
\* names the ride's current offer, that offer is PENDING and for the
\* entry's driver, and the ride is not in a terminal status.
C38_KeyAgreesWithRide ==
  \A r \in RideIds :
    (Quiescent(r) /\ KeyExists(r))
        => /\ offerKey[r].offerId = rides[r].current_driver_offer_id
           /\ offers[offerKey[r].offerId].status = "PENDING"
           /\ offers[offerKey[r].offerId].driver = offerKey[r].driverId
           /\ rides[r].status \notin TerminalStatuses

\* Driver d has an active assignment: a ride ACCEPTED by d, or a trip of d
\* that is STARTED or PAUSED.
ActiveAssignment(d) ==
  \/ \E r \in DOMAIN rides : AcceptedBy(r, d)
  \/ \E t \in 1..Len(trips) :
       trips[t].driver_id = d /\ trips[t].status \in {"STARTED", "PAUSED"}

\* C39: when no handler is in flight, a driver whose status is ON_TRIP has
\* an active assignment.
C39_OnTripHasAssignment ==
  (\A p \in ProcIds : procs[p].pc \in {"idle", "done"})
    => \A d \in Drivers : driverMeta[d] = "ON_TRIP" => ActiveAssignment(d)

\* The grid square of a point.
GridSquare(pt) == <<grid(pt.lat), grid(pt.lng)>>

\* C40: two points in different grid squares get different cell
\* identifiers.
C40_CellInjective ==
  \A p, q \in Returned("cell") :
    GridSquare(procs[p].point) # GridSquare(procs[q].point)
      => procs[p].geoCell # procs[q].geoCell

====
